---- MODULE Spec2Model ----
(***************************************************************************)
(* Model of the heat sink computation toolbox (hct): the operating-point   *)
(* solver (hydrodynamic.py), the thermal resistance pipeline               *)
(* (cooling_system.py) and the optimizer-facing objective                  *)
(* (optimization.py).                                                      *)
(*                                                                         *)
(* Numbers.  Python floats are modelled as exact rationals [n, d] with     *)
(* d > 0 in lowest terms; the float NaN is the record [n |-> 0, d |-> 0].  *)
(* Rounding is not modelled.  Lengths are in millimetres, pressures in     *)
(* Pascal, flows in units of 1/21188799 m^3/s (so CFM / 2118.8799 is the   *)
(* integer CFM * 10000), temperatures in units of 10 degree Celsius.       *)
(* Results of the transcendental correlations (sqrt, tanh, powers) are     *)
(* kept only as "num" or "nan"; every comparison the code branches on is   *)
(* computed exactly.                                                       *)
(***************************************************************************)
EXTENDS Integers, Sequences, FiniteSets, TLC

\* ------------------------------------------------------------------------
\* Bounds of the model
\* ------------------------------------------------------------------------
MaxSamples == 3
MaxPressure == 3
MaxFlow == 2
MaxTrials == 2
MaxStored == 3
MaxEvaluations == 3

\* ------------------------------------------------------------------------
\* float arithmetic
\* ------------------------------------------------------------------------
Abs(i) == IF i < 0 THEN 0 - i ELSE i

RECURSIVE Gcd(_, _)
Gcd(a, b) == IF b = 0 THEN a ELSE Gcd(b, a % b)

NaN == [n |-> 0, d |-> 0]

IsNaN(r) == r.d = 0

\* the float with value num / den (den # 0), in lowest terms
Frac(num, den) ==
    LET g == Gcd(Abs(num), Abs(den))
        sg == IF den < 0 THEN 0 - 1 ELSE 1
    IN  [n |-> sg * (num \div g), d |-> sg * (den \div g)]

R(i) == [n |-> i, d |-> 1]

RAdd(a, b) == IF IsNaN(a) \/ IsNaN(b) THEN NaN
              ELSE Frac(a.n * b.d + b.n * a.d, a.d * b.d)

RSub(a, b) == IF IsNaN(a) \/ IsNaN(b) THEN NaN
              ELSE Frac(a.n * b.d - b.n * a.d, a.d * b.d)

RMul(a, b) == IF IsNaN(a) \/ IsNaN(b) THEN NaN
              ELSE Frac(a.n * b.n, a.d * b.d)

\* numpy float64 division: no exception; 0/0 and x/0 are kept as NaN here
\* (the infinities of x/0 are not distinguished)
RDiv(a, b) == IF IsNaN(a) \/ IsNaN(b) \/ b.n = 0 THEN NaN
              ELSE Frac(a.n * b.d, a.d * b.n)

\* comparisons with NaN are False, as for floats
RLess(a, b) == ~IsNaN(a) /\ ~IsNaN(b) /\ a.n * b.d < b.n * a.d
RLeq(a, b) == ~IsNaN(a) /\ ~IsNaN(b) /\ a.n * b.d <= b.n * a.d

\* np.sign: -1, 0, 1, and NaN for NaN (coded 2)
SignNaN == 2
Sign(r) == IF IsNaN(r) THEN SignNaN
           ELSE IF r.n < 0 THEN 0 - 1 ELSE IF r.n > 0 THEN 1 ELSE 0

RSeq(s) == [i \in 1..Len(s) |-> R(s[i])]

\* the element of a one-element set: Only({F(v) : v \in {e}}) is F(e) with e
\* evaluated once
Only(S) == CHOOSE r \in S : TRUE

\* a variant that inserts one position too early
InsertBefore(s, index0, v) ==
    SubSeq(s, 1, index0 - 1) \o <<v>> \o SubSeq(s, index0, Len(s))

\* np.insert(list, index0, value) with the 0-based index index0
Insert(s, index0, v) ==
    SubSeq(s, 1, index0) \o <<v>> \o SubSeq(s, index0 + 1, Len(s))

\* ------------------------------------------------------------------------
\* hydrodynamic.calculate_intersection
\* ------------------------------------------------------------------------
\* np.diff(np.sign(y1_list - y2_list)) at 0-based position i0: a NaN sign gives
\* a NaN difference, which np.argwhere counts as non-zero
SignDiffNonZero(y1_list, y2_list, i0) ==
    LET a == Sign(RSub(y1_list[i0 + 1], y2_list[i0 + 1]))
        b == Sign(RSub(y1_list[i0 + 2], y2_list[i0 + 2]))
    IN  a = SignNaN \/ b = SignNaN \/ a # b

\* np.argwhere(np.diff(np.sign(y1_list - y2_list))).flatten(), 0-based
IntersectionIndices(y1_list, y2_list) ==
    {i0 \in 0..(Len(y1_list) - 2) : SignDiffNonZero(y1_list, y2_list, i0)}

\* a variant that takes the first of the indices, as argwhere(...)[0] would
UnpackFirst(indices) ==
    IF indices # {}
    THEN [ok |-> TRUE, index |-> CHOOSE i \in indices : \A j \in indices : i <= j]
    ELSE [ok |-> FALSE, index |-> 0]

\* the unpacking [intersection_index] = ... succeeds only for one element
UnpackSingle(indices) ==
    IF Cardinality(indices) = 1
    THEN [ok |-> TRUE, index |-> CHOOSE i \in indices : TRUE]
    ELSE [ok |-> FALSE, index |-> 0]

\* the crossing of the two lines through the samples i0 and i0 + 1 (0-based)
intersection_point(x_list, y1_list, y2_list, i0) ==
    LET i == i0 + 1
        dx == RSub(x_list[i + 1], x_list[i])
        m1 == RDiv(RSub(y1_list[i + 1], y1_list[i]), dx)
        m2 == RDiv(RSub(y2_list[i + 1], y2_list[i]), dx)
        t1 == RSub(y1_list[i], RMul(m1, x_list[i]))
        t2 == RSub(y2_list[i], RMul(m2, x_list[i]))
    IN  Only({[x_intersection |-> x_intersection,
               y_intersection |-> RAdd(RMul(m1, x_intersection), t1)] :
                 x_intersection \in {RDiv(RSub(t2, t1), RSub(m1, m2))}})

calculate_intersection(x_list, y1_list, y2_list) ==
    Only({
        IF ~u.ok
        THEN [status |-> "raise", error |-> "unpack",
              x_list |-> <<>>, y1_list |-> <<>>, y2_list |-> <<>>,
              x_intersection |-> NaN, y_intersection |-> NaN,
              intersection_index |-> 0]
        ELSE Only({[status |-> "return", error |-> "none",
                    x_list |-> Insert(x_list, u.index + 1, p.x_intersection),
                    y1_list |-> Insert(y1_list, u.index + 1, p.y_intersection),
                    y2_list |-> Insert(y2_list, u.index + 1, p.y_intersection),
                    x_intersection |-> p.x_intersection,
                    y_intersection |-> p.y_intersection,
                    intersection_index |-> u.index] :
                      p \in {intersection_point(x_list, y1_list, y2_list, u.index)}})
        : u \in {UnpackSingle(IntersectionIndices(y1_list, y2_list))}})

\* ------------------------------------------------------------------------
\* inputs of a direct call of calculate_intersection
\* ------------------------------------------------------------------------
\* strictly ascending flow grids of the given length
AscendingGrids(len) ==
    {x \in [1..len -> 0..MaxFlow] : \A i \in 1..(len - 1) : x[i] < x[i + 1]}

PressureLists(len) == [1..len -> 0..MaxPressure]


\* ------------------------------------------------------------------------
\* thermal_dataclasses.Geometry and the geometry helpers of cooling_system
\* ------------------------------------------------------------------------
\* the fixed fields of the geometries used: np.deg2rad(40) (kept in degrees),
\* l_duct_min = 5e-3, length_l = 100e-3, height_d = 3e-3
ALPHA_DEG == 40
L_DUCT_MIN == 5
LENGTH_L == 100
HEIGHT_D == 3

Geometry(height_c, width_b, number_fins_n, thickness_fin_t, fin_distance_s) ==
    [height_c |-> height_c, width_b |-> width_b, length_l |-> LENGTH_L,
     height_d |-> HEIGHT_D, number_fins_n |-> number_fins_n,
     thickness_fin_t |-> thickness_fin_t, fin_distance_s |-> fin_distance_s,
     alpha_rad |-> ALPHA_DEG, l_duct_min |-> L_DUCT_MIN]

\* the dataclass SpreadingMaterial: the generated __init__ stores the fields
SpreadingMaterial(lambda_conductivity, thickness_d, heat_source_area_a_s, spreading_material_area_a_sp) ==
    [lambda_conductivity |-> lambda_conductivity, thickness_d |-> thickness_d,
     heat_source_area_a_s |-> heat_source_area_a_s,
     spreading_material_area_a_sp |-> spreading_material_area_a_sp]

calc_fin_distance_s(geometry) ==
    Frac(geometry.width_b - (geometry.number_fins_n + 1) * geometry.thickness_fin_t,
         geometry.number_fins_n)

\* Python float division raises ZeroDivisionError on a zero divisor
\* (the Geometry fields are Python floats)
calc_epsilon_error(geometry) ==
    IF RLess(geometry.fin_distance_s, R(geometry.height_c))
    THEN IF geometry.height_c = 0 THEN "zero_division" ELSE "none"
    ELSE IF geometry.fin_distance_s.n = 0 THEN "zero_division" ELSE "none"

calc_epsilon(geometry) ==
    IF RLess(geometry.fin_distance_s, R(geometry.height_c))
    THEN RDiv(geometry.fin_distance_s, R(geometry.height_c))
    ELSE RDiv(R(geometry.height_c), geometry.fin_distance_s)

\* d_h = 2 s c / (s + c)
calc_d_h_error(geometry) ==
    IF RAdd(geometry.fin_distance_s, R(geometry.height_c)).n = 0
    THEN "zero_division" ELSE "none"

calc_d_h(geometry) ==
    RDiv(RMul(R(2 * geometry.height_c), geometry.fin_distance_s),
         RAdd(geometry.fin_distance_s, R(geometry.height_c)))

\* np.pi / 2 / epsilon raises on epsilon = 0
calc_friction_factor_reynolds_product_fd_error(epsilon) ==
    IF epsilon.n = 0 THEN "zero_division" ELSE "none"

\* np.sqrt(epsilon) is NaN for a negative epsilon
calc_friction_factor_reynolds_product_fd(epsilon) ==
    IF epsilon.n < 0 THEN "nan" ELSE "num"

\* (11.8336 v / (l n mu) + fd^2) ** 0.5, for v >= 0
calc_friction_factor_reynolds_product(friction_factor_reynolds_product_fd) ==
    friction_factor_reynolds_product_fd

\* ------------------------------------------------------------------------
\* cooling_system: Prandtl number and blending parameter
\* ------------------------------------------------------------------------
\* denominator / 100 of the Prandtl number at the temperature 10 * t10:
\* 1.1 T^3 - 1200 T^2 + 322000 T + 1.393e9 with T = 10 * t10
PrandtlDenominator(t10) ==
    11 * t10 * t10 * t10 - 1200 * t10 * t10 + 32200 * t10 + 13930000

PRANDTL_NOMINATOR == 10000000

prandtl_number_air(t10) == Frac(PRANDTL_NOMINATOR, PrandtlDenominator(t10))

calc_prandtl_number_air_error(t10) ==
    IF PrandtlDenominator(t10) = 0 THEN "zero_division"
    ELSE IF RLess(prandtl_number_air(t10), Frac(1, 10)) THEN "prandtl"
    ELSE "none"

\* m = 2.27 + 1.65 Pr^(1/3) > 7  iff  Pr > (473/165)^3 = 79507/3375
\*                                     = 23 + 1882/3375
BlendingAbove7(prandtl_number) ==
    LET q == prandtl_number.n \div prandtl_number.d
        r == prandtl_number.n % prandtl_number.d
    IN  q > 23 \/ (q = 23 /\ r * 3375 > 1882 * prandtl_number.d)

\* m < 2  iff  Pr^(1/3) < -27/165  iff  Pr < -729/166375
BlendingBelow2(prandtl_number) ==
    prandtl_number.n < 0 /\ prandtl_number.n * 166375 < (0 - 729) * prandtl_number.d

\* a variant without the range check
calc_blending_m_error_unchecked(prandtl_number) == "none"

calc_blending_m_error(prandtl_number) ==
    IF BlendingBelow2(prandtl_number) \/ BlendingAbove7(prandtl_number)
    THEN "blending" ELSE "none"

calc_hs_shape_z_star_error(geometry) ==
    IF RLess(R(1), calc_epsilon(geometry)) THEN "shape" ELSE "none"

\* ------------------------------------------------------------------------
\* cooling_system.calc_final_r_th_s_a
\* ------------------------------------------------------------------------
\* the calls of calc_final_r_th_s_a, in the order of the code
R_TH_STAGES ==
    << "calc_r_th_d", "calc_prandtl_number_air", "calc_epsilon", "calc_d_h",
       "calc_friction_factor_reynolds_product_fd",
       "calc_friction_factor_reynolds_product",
       "calc_function_of_prandtl_for_uwt", "calc_hs_shape_z_star",
       "calc_blending_m", "calc_nu_sqrt_a", "calc_heat_transfer_coefficient_h",
       "calc_fin_efficiency", "calc_effective_fin_surface",
       "calculate_r_th_sa_part_ii", "r_th_sa" >>

\* the exception a call of the pipeline raises, "none" when it returns
r_th_stage_error(stage, geometry, t_ambient) ==
    CASE stage = "calc_prandtl_number_air" -> calc_prandtl_number_air_error(t_ambient)
      [] stage = "calc_epsilon" -> calc_epsilon_error(geometry)
      [] stage = "calc_d_h" -> calc_d_h_error(geometry)
      [] stage = "calc_friction_factor_reynolds_product_fd" ->
            calc_friction_factor_reynolds_product_fd_error(calc_epsilon(geometry))
      [] stage = "calc_hs_shape_z_star" -> calc_hs_shape_z_star_error(geometry)
      [] stage = "calc_blending_m" -> calc_blending_m_error(prandtl_number_air(t_ambient))
      [] OTHER -> "none"

\* runs the stages from position i on: the position of the first stage that
\* raises, Len + 1 when none does
RECURSIVE r_th_first_failure(_, _, _)
r_th_first_failure(i, geometry, t_ambient) ==
    IF i > Len(R_TH_STAGES) THEN i
    ELSE IF r_th_stage_error(R_TH_STAGES[i], geometry, t_ambient) # "none" THEN i
    ELSE r_th_first_failure(i + 1, geometry, t_ambient)

\* the float the pipeline returns, for a positive flow: NaN when np.sqrt met a
\* negative epsilon, or a negative heat transfer coefficient (d_h < 0)
r_th_sa_value(geometry) ==
    LET fd == calc_friction_factor_reynolds_product_fd(calc_epsilon(geometry))
        nu_sqrt_a == calc_friction_factor_reynolds_product(fd)
        heat_transfer_coefficient_h ==
            IF nu_sqrt_a = "nan" THEN "nan"
            ELSE IF calc_d_h(geometry).n < 0 THEN "negative" ELSE "num"
        eta_fin == IF heat_transfer_coefficient_h = "num" THEN "num" ELSE "nan"
    IN  eta_fin

calc_final_r_th_s_a(geometry, t_ambient, volume_flow_v_dot) ==
    LET f == r_th_first_failure(1, geometry, t_ambient)
        raised == f <= Len(R_TH_STAGES)
        epsilon_done == f > 3
    IN  [status |-> IF raised THEN "raise" ELSE "return",
         error |-> IF raised THEN r_th_stage_error(R_TH_STAGES[f], geometry, t_ambient)
                   ELSE "none",
         stages |-> SubSeq(R_TH_STAGES, 1, IF raised THEN f ELSE Len(R_TH_STAGES)),
         epsilon |-> IF epsilon_done THEN calc_epsilon(geometry) ELSE NaN,
         value |-> IF raised THEN "none" ELSE r_th_sa_value(geometry),
         geometry |-> geometry]


\* ------------------------------------------------------------------------
\* fan curve files (hct/data) and fan_data.fan_database
\* ------------------------------------------------------------------------
\* a fan name: the stem and the suffix ('.csv' or none)
FanName(stem, suffix) == [stem |-> stem, suffix |-> suffix]

\* the files of the data directory: rows of (CFM, inches of water)
DataFileNames ==
    {FanName("orion_od4010m", ".csv"), FanName("orion_od3010h", ".csv"),
     FanName("custom_fan", ".csv")}

DataFile(fan_name) ==
    CASE fan_name.stem = "orion_od4010m" ->
            << [cfm |-> 1, inch_h2o |-> 2], [cfm |-> 2, inch_h2o |-> 1],
               [cfm |-> 3, inch_h2o |-> 1] >>
      [] fan_name.stem = "orion_od3010h" ->
            << [cfm |-> 1, inch_h2o |-> 1], [cfm |-> 2, inch_h2o |-> 1],
               [cfm |-> 3, inch_h2o |-> 0] >>
      [] OTHER ->
            << [cfm |-> 0, inch_h2o |-> 2], [cfm |-> 1, inch_h2o |-> 1],
               [cfm |-> 2, inch_h2o |-> 1] >>

\* fan_name.replace('.csv', '')
ReplaceCsv(fan_name) ==
    [fan_name EXCEPT !.suffix = IF @ = ".csv" THEN "" ELSE @]

FanDatabaseKeys == {FanName("orion_od4010m", ""), FanName("orion_od3010h", "")}

\* width_height and length of the catalog entry, in mm
fan_database(key) ==
    IF key.stem = "orion_od3010h" THEN [width_height |-> 30, length |-> 10]
    ELSE [width_height |-> 40, length |-> 10]

\* the fan names a caller may pass: with a data file and a catalog entry, with
\* no '.csv' suffix (no such file), and with a data file but no catalog entry
FanNames == DataFileNames \cup {FanName("orion_od4010m", "")}

\* ------------------------------------------------------------------------
\* hydrodynamic.read_fan_data
\* ------------------------------------------------------------------------
\* flow in units of 1/21188799 m^3/s: CFM / 2118.8799 = CFM * 10000 units
CFM_TO_FLOW_UNITS == 10000

\* a variant that sets the first value
set_first_zero(fan_inch_h2o) == [fan_inch_h2o EXCEPT ![1] = 0]

\* fan_inch_h2o[-1] = 0
set_last_zero(fan_inch_h2o) == [fan_inch_h2o EXCEPT ![Len(fan_inch_h2o)] = 0]

read_fan_data(rows) ==
    LET fan_cfm == [i \in 1..Len(rows) |-> rows[i].cfm]
        fan_inch_h2o == set_last_zero([i \in 1..Len(rows) |-> rows[i].inch_h2o])
    IN  [fan_cubic_meter_second |->
            [i \in 1..Len(rows) |-> R(fan_cfm[i] * CFM_TO_FLOW_UNITS)],
         fan_pressure_drop_pascal |->
            [i \in 1..Len(rows) |-> Frac(fan_inch_h2o[i] * 500, 2)]]

\* ------------------------------------------------------------------------
\* hydrodynamic.calc_volume_flow
\* ------------------------------------------------------------------------
\* calc_mean_d_h_duct: 2 b (b + c) / (3 b + c)
calc_mean_d_h_duct_error(geometry) ==
    IF 3 * geometry.width_b + geometry.height_c = 0 THEN "zero_division" ELSE "none"

\* np.tan of an angle given in degree, to three decimal places
Tan(alpha_deg) ==
    IF alpha_deg = 10 THEN Frac(176, 1000)
    ELSE IF alpha_deg = 20 THEN Frac(364, 1000)
    ELSE Frac(839, 1000)

\* a variant that never takes the minimum duct length
l_duct_not_clamped(l_duct, l_duct_min) == l_duct

\* elif l_duct < geometry.l_duct_min: l_duct = geometry.l_duct_min
l_duct_clamped(l_duct, l_duct_min) ==
    IF RLess(l_duct, R(l_duct_min)) THEN R(l_duct_min) ELSE l_duct

\* calc_l_duct: (b - c) / 2 / tan(alpha) < 0 raises "Fan too small."
calc_l_duct(geometry) ==
    Only({
      IF RLess(l_duct, R(0))
      THEN [status |-> "raise", error |-> "duct_length", value |-> NaN]
      ELSE [status |-> "return", error |-> "none",
            value |-> l_duct_clamped(l_duct, geometry.l_duct_min)]
      : l_duct \in {RDiv(RDiv(R(geometry.width_b - geometry.height_c), R(2)),
                         Tan(geometry.alpha_rad))}})

calc_l_duct_error(geometry) == calc_l_duct(geometry).error

\* The sign and finiteness of a float64: "nan", "ninf", "neg", "zero", "pos",
\* "pinf".  numpy divides by zero without an exception.
SigOfInt(i) == IF i < 0 THEN "neg" ELSE IF i = 0 THEN "zero" ELSE "pos"

SigOfR(r) == IF IsNaN(r) THEN "nan" ELSE SigOfInt(r.n)

SigIsNegative(a) == a \in {"neg", "ninf"}

SigIsInf(a) == a \in {"ninf", "pinf"}

\* the sign of a product or quotient of two signed values
SigTimes(a, b) == SigIsNegative(a) # SigIsNegative(b)

SigMul(a, b) ==
    IF a = "nan" \/ b = "nan" THEN "nan"
    ELSE IF SigIsInf(a) \/ SigIsInf(b)
    THEN IF a = "zero" \/ b = "zero" THEN "nan"
         ELSE IF SigTimes(a, b) THEN "ninf" ELSE "pinf"
    ELSE IF a = "zero" \/ b = "zero" THEN "zero"
    ELSE IF SigTimes(a, b) THEN "neg" ELSE "pos"

SigDiv(a, b) ==
    IF a = "nan" \/ b = "nan" THEN "nan"
    ELSE IF b = "zero"
    THEN IF a = "zero" THEN "nan"
         ELSE IF SigIsNegative(a) THEN "ninf" ELSE "pinf"
    ELSE IF SigIsInf(b)
    THEN IF SigIsInf(a) THEN "nan" ELSE "zero"
    ELSE IF SigIsInf(a)
    THEN IF SigTimes(a, b) THEN "ninf" ELSE "pinf"
    ELSE IF a = "zero" THEN "zero"
    ELSE IF SigTimes(a, b) THEN "neg" ELSE "pos"

\* np.sqrt and ** 0.5: NaN for a negative argument
SigSqrt(a) == IF a = "nan" \/ SigIsNegative(a) THEN "nan" ELSE a

\* the sum of two values neither of which is negative
SigAdd(a, b) ==
    IF a = "nan" \/ b = "nan" THEN "nan"
    ELSE IF a = "pinf" \/ b = "pinf" THEN "pinf"
    ELSE IF a = "pos" \/ b = "pos" THEN "pos"
    ELSE "zero"

\* a friction factor Reynolds product given as "num" is a positive number
SigOfProduct(f_re) == IF f_re = "num" THEN "pos" ELSE f_re

\* a variant that lets a NaN pass
f_app_duct_negative(f_app_duct_v_dot) == SigIsNegative(f_app_duct_v_dot)

\* if np.isnan(f_app_duct_v_dot) or f_app_duct_v_dot < 0
f_app_duct_invalid(f_app_duct_v_dot) ==
    f_app_duct_v_dot = "nan" \/ SigIsNegative(f_app_duct_v_dot)

\* calc_f_app_duct, by sign: part_i = mu sqrt(b (b + c)) / sqrt(2) / v,
\* part_ii = 11.8336 v 2 tan(alpha) / (b - c) / mu
calc_f_app_duct(geometry, volume_flow_v_dot, f_re_sqrt_a_fd) ==
    LET b == geometry.width_b
        c == geometry.height_c
        v == SigOfR(volume_flow_v_dot)
        part_i == SigDiv(SigSqrt(SigOfInt(b * (b + c))), v)
        part_ii == SigDiv(SigMul(v, SigOfR(Tan(geometry.alpha_rad))), SigOfInt(b - c))
        f_re == SigOfProduct(f_re_sqrt_a_fd)
        f_app_duct_v_dot == SigMul(part_i, SigSqrt(SigAdd(part_ii, SigMul(f_re, f_re))))
    IN  IF SigIsNegative(part_ii)
        THEN [status |-> "raise", error |-> "negative_part", value |-> "none"]
        ELSE IF f_app_duct_invalid(f_app_duct_v_dot)
        THEN [status |-> "raise", error |-> "f_app_duct", value |-> "none"]
        ELSE [status |-> "return", error |-> "none", value |-> f_app_duct_v_dot]

calc_f_app_duct_error(geometry, volume_flow_v_dot, f_re) ==
    calc_f_app_duct(geometry, volume_flow_v_dot, f_re).error

\* the calls of one pass of the loop over the fan's flow samples
VOLUME_FLOW_STAGES ==
    << "calc_epsilon", "calc_d_h", "calc_k_se", "calc_k_sc",
       "calc_friction_factor_reynolds_product_fd",
       "calc_friction_factor_reynolds_product", "calc_mean_u_hs", "calc_f_app",
       "calc_delta_p_heat_sink", "calc_mean_d_h_duct", "calc_l_duct",
       "calc_mean_u_duct", "calc_f_app_duct", "calc_delta_p_duct",
       "calc_delta_p_acc" >>

volume_flow_stage_error(stage, geometry, volume_flow_v_dot) ==
    CASE stage = "calc_epsilon" -> calc_epsilon_error(geometry)
      [] stage = "calc_d_h" -> calc_d_h_error(geometry)
      [] stage = "calc_friction_factor_reynolds_product_fd" ->
            calc_friction_factor_reynolds_product_fd_error(calc_epsilon(geometry))
      [] stage = "calc_mean_d_h_duct" -> calc_mean_d_h_duct_error(geometry)
      [] stage = "calc_l_duct" -> calc_l_duct_error(geometry)
      [] stage = "calc_f_app_duct" ->
            calc_f_app_duct_error(geometry, volume_flow_v_dot,
                calc_friction_factor_reynolds_product(
                    calc_friction_factor_reynolds_product_fd(calc_epsilon(geometry))))
      [] OTHER -> "none"

RECURSIVE volume_flow_first_failure(_, _, _)
volume_flow_first_failure(i, geometry, volume_flow_v_dot) ==
    IF i > Len(VOLUME_FLOW_STAGES) THEN i
    ELSE IF volume_flow_stage_error(VOLUME_FLOW_STAGES[i], geometry, volume_flow_v_dot) # "none"
         THEN i
    ELSE volume_flow_first_failure(i + 1, geometry, volume_flow_v_dot)

\* the exception of the pass for one flow sample, "none" when it completes
sample_error(geometry, volume_flow_v_dot) ==
    LET f == volume_flow_first_failure(1, geometry, volume_flow_v_dot)
    IN  IF f > Len(VOLUME_FLOW_STAGES) THEN "none"
        ELSE volume_flow_stage_error(VOLUME_FLOW_STAGES[f], geometry, volume_flow_v_dot)

\* the first sample (1-based) whose pass raises, Len + 1 when none does
RECURSIVE first_failing_sample(_, _, _)
first_failing_sample(k, geometry, flows) ==
    IF k > Len(flows) THEN k
    ELSE IF sample_error(geometry, flows[k]) # "none" THEN k
    ELSE first_failing_sample(k + 1, geometry, flows)

\* delta_p_total of a completed pass: at flow 0 the apparent friction factor
\* is infinite and the velocity 0, their product NaN; otherwise the number
\* the correlations give, delta_p
delta_p_total(volume_flow_v_dot, delta_p) ==
    IF volume_flow_v_dot.n = 0 THEN NaN ELSE R(delta_p)

\* geometry.fin_distance_s = calc_fin_distance_s(geometry), line 259
assign_fin_distance_s(geometry) == calc_fin_distance_s(geometry)

\* delta_p: the numbers the pressure drop correlations give at the fan's flow
\* samples (delta_p_acc + delta_p_duct + delta_p_heat_sink)
VolumeFlowResult(status, error, geometry, volume_flow, pressure, epsilon) ==
    [status |-> status, error |-> error, geometry |-> geometry,
     volume_flow |-> volume_flow, pressure |-> pressure, epsilon |-> epsilon,
     fin_distance_used |-> geometry.fin_distance_s]

\* the loop over the flow samples and the intersection, for the geometry as
\* line 259 left it
volume_flow_of_curves(fan, geometry, delta_p) ==
    LET flows == fan.fan_cubic_meter_second
        result_list_delta_p_total ==
            [i \in 1..Len(flows) |-> delta_p_total(flows[i], delta_p[i])]
    IN  Only({
          IF k <= Len(flows)
          THEN VolumeFlowResult("raise", sample_error(geometry, flows[k]), geometry,
                                NaN, NaN, NaN)
          ELSE Only({
                 IF intersection.status = "raise"
                 THEN VolumeFlowResult("raise", intersection.error, geometry,
                                       NaN, NaN, calc_epsilon(geometry))
                 ELSE VolumeFlowResult("return", "none", geometry,
                                       intersection.x_intersection,
                                       intersection.y_intersection,
                                       calc_epsilon(geometry))
                 : intersection \in {calculate_intersection(flows, result_list_delta_p_total,
                                                            fan.fan_pressure_drop_pascal)}})
          : k \in {first_failing_sample(1, geometry, flows)}})

\* delta_p: the numbers the pressure drop correlations give at the fan's flow
\* samples (delta_p_acc + delta_p_duct + delta_p_heat_sink)
calc_volume_flow(fan_name, geometry, delta_p) ==
    IF fan_name \notin DataFileNames
    THEN [status |-> "raise", error |-> "file_not_found", geometry |-> geometry,
          volume_flow |-> NaN, pressure |-> NaN, epsilon |-> NaN,
          fin_distance_used |-> NaN]
    ELSE volume_flow_of_curves(
             read_fan_data(DataFile(fan_name)),
             [geometry EXCEPT !.fin_distance_s = assign_fin_distance_s(geometry)],
             delta_p)

\* whether the call gets as far as using the correlation results
reaches_intersection(fan_name, geometry) ==
    /\ fan_name \in DataFileNames
    /\ LET flows == read_fan_data(DataFile(fan_name)).fan_cubic_meter_second
           geometry_after == [geometry EXCEPT !.fin_distance_s = assign_fin_distance_s(geometry)]
       IN  first_failing_sample(1, geometry_after, flows) > Len(flows)

\* the numbers the correlations may give at the flow samples of a fan file
SysPressures == {125 * k : k \in 0..MaxPressure}

SysCurves(fan_name, geometry) ==
    IF reaches_intersection(fan_name, geometry)
    THEN [1..Len(DataFile(fan_name)) -> SysPressures]
    ELSE {<<>>}


\* ------------------------------------------------------------------------
\* cooling_system.calc_total_volume
\* ------------------------------------------------------------------------
\* length_l * width_b * (height_c + height_d), in mm^3
calc_boxed_volume_heat_sink(geometry) ==
    R(geometry.length_l * geometry.width_b * (geometry.height_c + geometry.height_d))

\* fan_database[fan_name.replace('.csv', '')] raises KeyError
calc_fan_volume(fan_name) ==
    IF ReplaceCsv(fan_name) \notin FanDatabaseKeys
    THEN [status |-> "raise", error |-> "key_error", value |-> NaN]
    ELSE Only({
           [status |-> "return", error |-> "none",
            value |-> R(fan_data.width_height * fan_data.width_height * fan_data.length)]
           : fan_data \in {fan_database(ReplaceCsv(fan_name))}})

calc_fan_volume_error(fan_name) == calc_fan_volume(fan_name).error

\* the smaller of width_b and height_c
min_width_height_heat_sink(geometry) ==
    IF geometry.width_b < geometry.height_c THEN geometry.width_b ELSE geometry.height_c

\* distance_fan - distance_heat_sink, each (side / 2) / tan(alpha / 2)
duct_length_to_fan(geometry, fan_data) ==
    RSub(RDiv(Frac(fan_data.width_height, 2), Tan(geometry.alpha_rad \div 2)),
         RDiv(Frac(min_width_height_heat_sink(geometry), 2),
              Tan(geometry.alpha_rad \div 2)))

\* l_duct < 0 raises "Fan too small."
calc_duct_volume(geometry, fan_name) ==
    IF ReplaceCsv(fan_name) \notin FanDatabaseKeys
    THEN [status |-> "raise", error |-> "key_error", value |-> NaN]
    ELSE Only({
           IF RLess(duct_length_to_fan(geometry, fan_data), R(0))
           THEN [status |-> "raise", error |-> "fan_too_small", value |-> NaN]
           ELSE [status |-> "return", error |-> "none",
                 value |->
                   RMul(RMul(Frac(fan_data.width_height + geometry.width_b, 2),
                             Frac(fan_data.width_height + geometry.height_c, 2)),
                        l_duct_clamped(duct_length_to_fan(geometry, fan_data),
                                       geometry.l_duct_min))]
           : fan_data \in {fan_database(ReplaceCsv(fan_name))}})

calc_duct_volume_error(geometry, fan_name) == calc_duct_volume(geometry, fan_name).error

\* a variant that leaves the duct out of the sum
total_volume_without_duct(heat_sink_volume, fan_volume, duct_volume) ==
    RAdd(heat_sink_volume, fan_volume)

\* return heat_sink_volume + fan_volume + duct_volume
total_volume_sum(heat_sink_volume, fan_volume, duct_volume) ==
    RAdd(RAdd(heat_sink_volume, fan_volume), duct_volume)

calc_total_volume(geometry, fan_name) ==
    Only({
      IF fan_volume.status = "raise"
      THEN [status |-> "raise", error |-> fan_volume.error,
            heat_sink_volume |-> calc_boxed_volume_heat_sink(geometry),
            fan_volume |-> NaN, duct_volume |-> NaN, value |-> NaN]
      ELSE Only({
             IF duct_volume.status = "raise"
             THEN [status |-> "raise", error |-> duct_volume.error,
                   heat_sink_volume |-> calc_boxed_volume_heat_sink(geometry),
                   fan_volume |-> fan_volume.value, duct_volume |-> NaN, value |-> NaN]
             ELSE [status |-> "return", error |-> "none",
                   heat_sink_volume |-> calc_boxed_volume_heat_sink(geometry),
                   fan_volume |-> fan_volume.value, duct_volume |-> duct_volume.value,
                   value |-> total_volume_sum(calc_boxed_volume_heat_sink(geometry),
                                              fan_volume.value, duct_volume.value)]
             : duct_volume \in {calc_duct_volume(geometry, fan_name)}})
      : fan_volume \in {calc_fan_volume(fan_name)}})

calc_total_volume_error(geometry, fan_name) == calc_total_volume(geometry, fan_name).error

\* ------------------------------------------------------------------------
\* cooling_system.calc_weight_heat_sink
\* ------------------------------------------------------------------------
\* constants.rho_material, in kg/m^3
RHO_MATERIAL == 2699

\* volumes in mm^3; the weight in units of 1e-7 kg
calc_weight_heat_sink(geometry) ==
    LET boxed_volume == calc_boxed_volume_heat_sink(geometry)
        air_volume ==
            RMul(R((geometry.number_fins_n - 1) * geometry.height_c * geometry.length_l),
                 geometry.fin_distance_s)
        material_volume == RSub(boxed_volume, air_volume)
    IN  [status |-> "return", error |-> "none",
         boxed_volume |-> boxed_volume, air_volume |-> air_volume,
         material_volume |-> material_volume,
         value |-> RMul(RDiv(material_volume, R(100)), R(RHO_MATERIAL))]

\* ------------------------------------------------------------------------
\* optimization.Optimization.objective
\* ------------------------------------------------------------------------
\* area_min = None (Optional[float])
None == 0 - 1

\* 0.1e-3 m, in mm
FIN_DISTANCE_MIN == Frac(1, 10)

nan == "nan"

\* a variant of the handler that keeps the volume computed before the failure
except_handler_partial(number_directions) ==
    IF number_directions = 2 THEN <<"total_volume", nan>>
    ELSE IF number_directions = 3 THEN <<"total_volume", nan, nan>>
    ELSE <<"None">>

\* the handler of the bare except
except_handler(number_directions) ==
    IF number_directions = 2 THEN <<nan, nan>>
    ELSE IF number_directions = 3 THEN <<nan, nan, nan>>
    ELSE <<"None">>

\* the exception kinds of the error taxonomy: validation (Prandtl, blending
\* exponent, shape factor), geometry (duct length, fan too small) and numeric
\* (duct friction factor)
NamedErrors ==
    {"prandtl", "blending", "shape", "duct_length", "fan_too_small",
     "negative_part", "f_app_duct"}

\* except: catches every exception
Caught(error) == TRUE

\* return float('nan'), float('nan')
early_return(number_directions) == <<nan, nan>>

\* a variant without the check of the fin distance
fin_distance_unchecked(geometry) == FALSE

\* if geometry.fin_distance_s <= 0.1e-3
fin_distance_too_small(geometry) == RLeq(geometry.fin_distance_s, FIN_DISTANCE_MIN)

\* no engine result is returned
NoValues == [none |-> TRUE]

\* a variant that hands the pressure of the operating point over
r_th_sa_call_at_pressure(flow, config) ==
    [geometry |-> flow.geometry, t_ambient |-> config.t_ambient,
     volume_flow_v_dot |-> flow.pressure]

\* calc_final_r_th_s_a(geometry, constants, config.t_ambient, volume_flow_v_dot)
r_th_sa_call(flow, config) ==
    [geometry |-> flow.geometry, t_ambient |-> config.t_ambient,
     volume_flow_v_dot |-> flow.volume_flow]

\* ret: the kind of value in each slot of the returned tuple; values: the
\* engine results the slots hold
ObjectiveResult(status, error, caught, ret, calls, geometry, values) ==
    [status |-> status, error |-> error, caught |-> caught, ret |-> ret,
     calls |-> calls, geometry |-> geometry, values |-> values]

\* the try block from calc_final_r_th_s_a on, for the flow calc_volume_flow
\* returned
objective_after_flow(fan_name, flow, config) ==
    Only({
      IF r_th.status = "raise"
      THEN [error |-> r_th.error, ret |-> <<>>, values |-> NoValues,
            calls |-> <<"calc_volume_flow", "calc_final_r_th_s_a">>]
      ELSE IF calc_total_volume_error(flow.geometry, fan_name) # "none"
      THEN [error |-> calc_total_volume_error(flow.geometry, fan_name), ret |-> <<>>,
            values |-> NoValues,
            calls |-> <<"calc_volume_flow", "calc_final_r_th_s_a", "calc_total_volume">>]
      ELSE [error |-> "none",
            values |-> [total_volume |-> calc_total_volume(flow.geometry, fan_name).value,
                        r_th_sa |-> [call |-> r_th_sa_call(flow, config),
                                     value |-> r_th.value],
                        area |-> flow.geometry.width_b * flow.geometry.length_l],
            ret |-> IF config.number_directions = 2
                    THEN <<"total_volume", IF r_th.value = "nan" THEN nan ELSE "r_th_sa">>
                    ELSE IF config.number_directions = 3
                    THEN <<"total_volume", IF r_th.value = "nan" THEN nan ELSE "r_th_sa",
                           "area">>
                    ELSE <<"None">>,
            calls |-> <<"calc_volume_flow", "calc_final_r_th_s_a", "calc_total_volume">>]
      : r_th \in {calc_final_r_th_s_a(r_th_sa_call(flow, config).geometry,
                                       r_th_sa_call(flow, config).t_ambient,
                                       r_th_sa_call(flow, config).volume_flow_v_dot)}})

\* a variant that applies the area bound whatever number_directions is
area_bound_always_applied(config) == TRUE

\* config.number_directions == 2 and ...: the area bound is looked at
area_bound_applied(config) == config.number_directions = 2

\* the body of the try block: [error, ret, calls]
objective_try(fan_name, geometry, config, delta_p) ==
    IF area_bound_applied(config) /\ config.area_min = None
    THEN [error |-> "type_error", ret |-> <<>>, calls |-> <<>>, values |-> NoValues]
    ELSE IF area_bound_applied(config)
              /\ geometry.width_b * geometry.length_l < config.area_min
    THEN [error |-> "none", ret |-> early_return(config.number_directions),
          calls |-> <<>>, values |-> NoValues]
    ELSE Only({
           IF flow.status = "raise"
           THEN [error |-> flow.error, ret |-> <<>>, calls |-> <<"calc_volume_flow">>,
                 values |-> NoValues]
           ELSE IF IsNaN(flow.volume_flow)
           THEN [error |-> "none", ret |-> early_return(config.number_directions),
                 calls |-> <<"calc_volume_flow">>, values |-> NoValues]
           ELSE objective_after_flow(fan_name, flow, config)
           : flow \in {calc_volume_flow(fan_name, geometry, delta_p)}})

\* trial: the suggested fan, height_c, width_b, thickness_fin_t, number_fins_n
objective_of_geometry(trial, geometry, config, delta_p) ==
    IF fin_distance_too_small(geometry)
    THEN ObjectiveResult("return", "none", "none",
                         early_return(config.number_directions), <<>>, geometry,
                         NoValues)
    ELSE Only({
           IF body.error = "none"
           THEN ObjectiveResult("return", "none", "none", body.ret, body.calls, geometry,
                                body.values)
           ELSE IF Caught(body.error)
           THEN ObjectiveResult("return", "none", body.error,
                                except_handler(config.number_directions), body.calls,
                                geometry, NoValues)
           ELSE ObjectiveResult("raise", body.error, "none", <<>>, body.calls, geometry,
                                NoValues)
           : body \in {objective_try(trial.fan, geometry, config, delta_p)}})

objective(trial, config, delta_p) ==
    LET constructed == Geometry(trial.height_c, trial.width_b, trial.number_fins_n,
                                trial.thickness_fin_t, R(0))
    IN  objective_of_geometry(
            trial, [constructed EXCEPT !.fin_distance_s = calc_fin_distance_s(constructed)],
            config, delta_p)

\* ------------------------------------------------------------------------
\* inputs of the engines
\* ------------------------------------------------------------------------
HeightC == {0 - 30, 0, 30, 35}
WidthB == {23, 40}
NumberFinsN == {9, 10}
ThicknessFinT == {2, 4}
\* ambient temperatures, in units of 10 degree Celsius
TAmbient == {0 - 100, 0 - 75, 2, 4, 250}

\* a geometry as the callers build it: fin_distance_s = 0 at construction,
\* then assigned from calc_fin_distance_s, or left as constructed
Geometries ==
    LET raw == {Geometry(c, b, n, t, R(0)) :
                   c \in HeightC, b \in WidthB, n \in NumberFinsN, t \in ThicknessFinT}
    IN  raw \cup {[g EXCEPT !.fin_distance_s = calc_fin_distance_s(g)] : g \in raw}

DirectFlows == {R(10000 * k) : k \in 1..MaxFlow}

\* flows and friction factor Reynolds products handed to calc_f_app_duct
FAppDuctFlows == DirectFlows \cup {R(0), R(0 - 10000), NaN}
FrictionProducts == {"nan", "zero", "pos", "neg"}

\* fin counts, areas (mm^2) and the conductivity handed to the constructors
ConstructedFinCounts == {0 - 1, 0} \cup NumberFinsN
Areas == {0, 50, 100}
LAMBDA_CONDUCTIVITY == 400

\* the data rows of a fan curve file: CFM and inches of water
FanRows == [cfm : 0..MaxFlow, inch_h2o : 0..2]

\* fan names handed to the volume functions: 'with or without .csv'
VolumeFanNames == FanNames \cup {FanName("orion_od3010h", "")}

\* duct angles in degree and minimum duct lengths in mm
AlphaDeg == {20, ALPHA_DEG}
LDuctMin == {0 - 5, 0, L_DUCT_MIN, 12}

\* ------------------------------------------------------------------------
\* inputs of the objective
\* ------------------------------------------------------------------------
NumberDirections == {2, 3}
AreaMin == {None, 3000, 5000}
ObjectiveTAmbient == {0 - 75, 2, 250}

Configs ==
    [number_directions : NumberDirections, area_min : AreaMin,
     t_ambient : ObjectiveTAmbient]

\* what trial.suggest_categorical, suggest_float and suggest_int may give
Trials ==
    [fan : FanNames, height_c : HeightC, width_b : WidthB,
     number_fins_n : NumberFinsN, thickness_fin_t : ThicknessFinT]

TrialGeometry(trial) ==
    LET constructed == Geometry(trial.height_c, trial.width_b, trial.number_fins_n,
                                trial.thickness_fin_t, R(0))
    IN  [constructed EXCEPT !.fin_distance_s = calc_fin_distance_s(constructed)]

\* the correlation results matter only to a trial that gets to use them
ObjectiveSysCurves(trial, config) ==
    IF /\ ~fin_distance_too_small(TrialGeometry(trial))
       /\ ~(config.number_directions = 2 /\ config.area_min # None
              /\ trial.width_b * LENGTH_L < config.area_min)
    THEN SysCurves(trial.fan, TrialGeometry(trial))
    ELSE {<<>>}

\* ------------------------------------------------------------------------
\* optimization.Optimization.start_proceed_study
\* ------------------------------------------------------------------------
\* trials[-number_trials:], a Python slice: the whole list for 0
SliceFromEnd(trials, number_trials) ==
    IF number_trials = 0 THEN trials
    ELSE SubSeq(trials,
                (IF Len(trials) > number_trials THEN Len(trials) - number_trials ELSE 0) + 1,
                Len(trials))

\* study.add_trials(trials): appends a copy of each trial
add_trials(study, trials) == study \o trials

\* what a trial of the study records of the objective's return
TrialValues == {"nan", "num"}

\* config.heat_sink_optimization_directory: a path relative to the working
\* directory, and the absolute path of the same directory
RELATIVE_DIRECTORY == "study"
ABSOLUTE_DIRECTORY == "/cwd/study"
Directories == {RELATIVE_DIRECTORY, ABSOLUTE_DIRECTORY}

\* os.path.abspath(path), with /cwd the working directory
abspath(path) == IF path = RELATIVE_DIRECTORY THEN ABSOLUTE_DIRECTORY ELSE path

\* the configurations a study is run with
StudyNumberDirections == {1, 2, 3}

StudyConfigs ==
    [number_directions : StudyNumberDirections, area_min : {3000}, t_ambient : {2},
     heat_sink_optimization_directory : Directories]

\* input(): '1' or Enter proceed, any other key aborts
ReadTexts == {"1", "", "n"}

\* no configuration file on disk
NoConfig == [none |-> TRUE]

\* deepdiff.DeepDiff(config_on_disk, config): the fields that differ
\* (the configurations the runs are given differ in no float)
DeepDiff(on_disk, config) == {f \in DOMAIN config : on_disk[f] # config[f]}

\* a variant that takes every answer for a go-ahead
proceed_always(read_text) == TRUE

\* read_text == str(1) or read_text == ""
proceed(read_text) == read_text = "1" \/ read_text = ""

Unbound == <<"unbound">>

\* a variant that optimizes two objectives when number_directions is not 3
directions_default(number_directions) ==
    IF number_directions = 3 THEN <<"minimize", "minimize", "minimize">>
    ELSE <<"minimize", "minimize">>

\* lines 122 to 127: directions stays unassigned after logging.error
directions(number_directions) ==
    IF number_directions = 2 THEN <<"minimize", "minimize">>
    ELSE IF number_directions = 3 THEN <<"minimize", "minimize", "minimize">>
    ELSE Unbound

\* save_config: the directory of the caller's object is made absolute, and
\* the object is pickled
save_config(config) ==
    [config EXCEPT !.heat_sink_optimization_directory = abspath(@)]

\* ------------------------------------------------------------------------
\* state
\* ------------------------------------------------------------------------
\* op, args, result: the call of an engine or of the objective in progress.
\* study_in_storage: the trials of the persisted study (the sqlite file);
\* config_on_disk: the pickled configuration; study_in_memory and run: the
\* in-memory study and the position of start_proceed_study;
\* last_run_config: the field values the caller passed to the last completed
\* run.
\* shared_geometry: a Geometry object handed to several engine calls;
\* fin_distance_writer: the evaluation that last assigned its fin_distance_s
\* (0: the caller that constructed it); evaluations: the engine calls running
\* on it.
VARIABLES op, args, result, study_in_storage, config_on_disk, study_in_memory, run,
          last_run_config, shared_geometry, fin_distance_writer, evaluations

call_vars == <<op, args, result>>

study_vars == <<study_in_storage, config_on_disk, study_in_memory, run, last_run_config>>

shared_vars == <<shared_geometry, fin_distance_writer, evaluations>>

vars == <<op, args, result, study_in_storage, config_on_disk, study_in_memory, run,
          last_run_config, shared_geometry, fin_distance_writer, evaluations>>

NoArgs == [none |-> TRUE]

\* the engine calls that may run on the shared geometry
EvalIds == 1..MaxEvaluations

NoEvaluation == [pc |-> "idle"]

\* no start_proceed_study in progress
NoRun == [pc |-> "idle"]

Init ==
    /\ op = "none"
    /\ args = NoArgs
    /\ result = NoArgs
    /\ study_in_storage = <<>>
    /\ config_on_disk = NoConfig
    /\ study_in_memory = <<>>
    /\ run = NoRun
    /\ last_run_config = NoConfig
    /\ shared_geometry = Geometry(30, 40, 10, 2, R(0))
    /\ fin_distance_writer = 0
    /\ evaluations = [i \in EvalIds |-> NoEvaluation]

CallCalculateIntersection ==
    /\ op = "none"
    /\ \E len \in 2..MaxSamples :
         \E x \in AscendingGrids(len) :
           \E y1 \in PressureLists(len) :
             \E y2 \in PressureLists(len) :
               /\ op' = "calculate_intersection"
               /\ args' = [x_list |-> RSeq(x), y1_list |-> RSeq(y1), y2_list |-> RSeq(y2)]
               /\ result' = calculate_intersection(RSeq(x), RSeq(y1), RSeq(y2))
    /\ UNCHANGED <<study_vars, shared_vars>>

CallCalcFinalRThSA ==
    /\ op = "none"
    /\ \E geometry \in Geometries :
         \E t_ambient \in TAmbient :
           \E volume_flow_v_dot \in DirectFlows :
             /\ op' = "calc_final_r_th_s_a"
             /\ args' = [geometry |-> geometry, t_ambient |-> t_ambient,
                         volume_flow_v_dot |-> volume_flow_v_dot]
             /\ result' = calc_final_r_th_s_a(geometry, t_ambient, volume_flow_v_dot)
    /\ UNCHANGED <<study_vars, shared_vars>>

CallCalcVolumeFlow ==
    /\ op = "none"
    /\ \E fan_name \in FanNames :
         \E geometry \in Geometries :
           \E delta_p \in SysCurves(fan_name, geometry) :
             /\ op' = "calc_volume_flow"
             /\ args' = [fan_name |-> fan_name, geometry |-> geometry, delta_p |-> delta_p]
             /\ result' = calc_volume_flow(fan_name, geometry, delta_p)
    /\ UNCHANGED <<study_vars, shared_vars>>

CallObjective ==
    /\ op = "none"
    /\ \E trial \in Trials :
         \E config \in Configs :
           \E delta_p \in ObjectiveSysCurves(trial, config) :
             /\ op' = "objective"
             /\ args' = [trial |-> trial, config |-> config, delta_p |-> delta_p]
             /\ result' = objective(trial, config, delta_p)
    /\ UNCHANGED <<study_vars, shared_vars>>

CallCalcLDuct ==
    /\ op = "none"
    /\ \E geometry \in Geometries :
         \E alpha \in AlphaDeg :
           \E l_duct_min \in LDuctMin :
             /\ op' = "calc_l_duct"
             /\ args' = [geometry |-> [geometry EXCEPT !.alpha_rad = alpha,
                                                      !.l_duct_min = l_duct_min]]
             /\ result' = calc_l_duct(args'.geometry)
    /\ UNCHANGED <<study_vars, shared_vars>>

CallCalcFAppDuct ==
    /\ op = "none"
    /\ \E geometry \in Geometries :
         \E height_c \in {geometry.height_c, geometry.width_b} :
           \E volume_flow_v_dot \in FAppDuctFlows :
             \E f_re_sqrt_a_fd \in FrictionProducts :
               /\ op' = "calc_f_app_duct"
               /\ args' = [geometry |-> [geometry EXCEPT !.height_c = height_c],
                           volume_flow_v_dot |-> volume_flow_v_dot,
                           f_re_sqrt_a_fd |-> f_re_sqrt_a_fd]
               /\ result' = calc_f_app_duct(args'.geometry, volume_flow_v_dot,
                                            f_re_sqrt_a_fd)
    /\ UNCHANGED <<study_vars, shared_vars>>

CallCalcDuctVolume ==
    /\ op = "none"
    /\ \E geometry \in Geometries :
         \E fan_name \in VolumeFanNames :
           /\ op' = "calc_duct_volume"
           /\ args' = [geometry |-> geometry, fan_name |-> fan_name]
           /\ result' = calc_duct_volume(geometry, fan_name)
    /\ UNCHANGED <<study_vars, shared_vars>>

CallCalcTotalVolume ==
    /\ op = "none"
    /\ \E geometry \in Geometries :
         \E fan_name \in VolumeFanNames :
           /\ op' = "calc_total_volume"
           /\ args' = [geometry |-> geometry, fan_name |-> fan_name]
           /\ result' = calc_total_volume(geometry, fan_name)
    /\ UNCHANGED <<study_vars, shared_vars>>

CallCalcWeightHeatSink ==
    /\ op = "none"
    /\ \E geometry \in Geometries :
         /\ op' = "calc_weight_heat_sink"
         /\ args' = [geometry |-> geometry]
         /\ result' = calc_weight_heat_sink(geometry)
    /\ UNCHANGED <<study_vars, shared_vars>>

CallReadFanData ==
    /\ op = "none"
    /\ \E len \in 1..MaxSamples :
         \E rows \in [1..len -> FanRows] :
           /\ op' = "read_fan_data"
           /\ args' = [rows |-> rows]
           /\ result' = read_fan_data(rows)
    /\ UNCHANGED <<study_vars, shared_vars>>

\* Geometry(...): the generated __init__ has no check and always returns
ConstructGeometry ==
    /\ op = "none"
    /\ \E height_c \in HeightC :
         \E width_b \in WidthB :
           \E number_fins_n \in ConstructedFinCounts :
             \E thickness_fin_t \in ThicknessFinT :
               /\ op' = "Geometry"
               /\ args' = [height_c |-> height_c, width_b |-> width_b,
                           number_fins_n |-> number_fins_n,
                           thickness_fin_t |-> thickness_fin_t,
                           fin_distance_s |-> R(0)]
               /\ result' = [status |-> "return",
                             value |-> Geometry(height_c, width_b, number_fins_n,
                                                thickness_fin_t, R(0))]
    /\ UNCHANGED <<study_vars, shared_vars>>

\* SpreadingMaterial(...): the generated __init__ has no check either
ConstructSpreadingMaterial ==
    /\ op = "none"
    /\ \E heat_source_area_a_s \in Areas :
         \E spreading_material_area_a_sp \in Areas :
           \E thickness_d \in ThicknessFinT :
             /\ op' = "SpreadingMaterial"
             /\ args' = [lambda_conductivity |-> LAMBDA_CONDUCTIVITY,
                         thickness_d |-> thickness_d,
                         heat_source_area_a_s |-> heat_source_area_a_s,
                         spreading_material_area_a_sp |-> spreading_material_area_a_sp]
             /\ result' = [status |-> "return",
                           value |-> SpreadingMaterial(LAMBDA_CONDUCTIVITY, thickness_d,
                                                       heat_source_area_a_s,
                                                       spreading_material_area_a_sp)]
    /\ UNCHANGED <<study_vars, shared_vars>>

\* the caller is done with the result
Return ==
    /\ op # "none"
    /\ op' = "none"
    /\ args' = NoArgs
    /\ result' = NoArgs
    /\ UNCHANGED <<study_vars, shared_vars>>

Next ==
    \/ CallCalcLDuct
    \/ CallCalcFAppDuct
    \/ ConstructGeometry
    \/ ConstructSpreadingMaterial
    \/ CallReadFanData
    \/ CallCalcDuctVolume
    \/ CallCalcTotalVolume
    \/ CallCalcWeightHeatSink
    \/ CallCalculateIntersection
    \/ CallCalcFinalRThSA
    \/ CallCalcVolumeFlow
    \/ CallObjective
    \/ Return

Spec == Init /\ [][Next]_vars

\* ------------------------------------------------------------------------
\* start_proceed_study, step by step
\* ------------------------------------------------------------------------
\* lines 88 to 120: the configuration on disk is compared with the one given;
\* when they differ the user is asked and may abort. config is the caller's
\* object, given its field values at the call.
StartProceedStudy ==
    /\ run.pc = "idle"
    /\ Len(study_in_storage) < MaxStored
    /\ \E config \in StudyConfigs :
         \E number_trials \in 0..MaxTrials :
           \E read_text \in ReadTexts :
             LET difference == IF config_on_disk # NoConfig
                               THEN DeepDiff(config_on_disk, config) ELSE {}
             IN  run' = [pc |-> IF difference # {} /\ ~proceed(read_text)
                                THEN "aborted" ELSE "create_study",
                         config |-> config, given |-> config,
                         prompted |-> difference # {},
                         read_text |-> IF difference # {} THEN read_text ELSE "not asked",
                         number_trials |-> number_trials,
                         remaining |-> number_trials,
                         storage_at_start |-> study_in_storage,
                         config_at_start |-> config_on_disk]
    /\ UNCHANGED <<study_in_storage, config_on_disk, study_in_memory, last_run_config>>
    /\ UNCHANGED <<call_vars, shared_vars>>

\* lines 122 to 139: directions is set; the stored study is loaded and its
\* trials are added to a new study in memory. Reading the unassigned
\* directions at line 134 raises UnboundLocalError.
CreateStudies ==
    /\ run.pc = "create_study"
    /\ IF directions(run.config.number_directions) = Unbound
       THEN /\ run' = [run EXCEPT !.pc = "error"]
            /\ UNCHANGED study_in_memory
       ELSE /\ study_in_memory' = add_trials(<<>>, study_in_storage)
            /\ run' = [run EXCEPT !.pc = "optimize"]
    /\ UNCHANGED <<study_in_storage, config_on_disk, last_run_config>>
    /\ UNCHANGED <<call_vars, shared_vars>>

\* a variant that optimizes the stored study: each trial is stored when it is
\* evaluated
OptimizeStoredStudy ==
    /\ run.pc = "optimize"
    /\ run.remaining > 0
    /\ \E values \in TrialValues :
         LET trial == [values |-> values, evaluated_at |-> Len(study_in_memory) + 1]
         IN  /\ study_in_memory' = Append(study_in_memory, trial)
             /\ study_in_storage' = Append(study_in_storage, trial)
    /\ run' = [run EXCEPT !.remaining = @ - 1]
    /\ UNCHANGED <<config_on_disk, last_run_config>>
    /\ UNCHANGED <<call_vars, shared_vars>>

\* line 140: study_in_memory.optimize evaluates one more trial
OptimizeTrial ==
    /\ run.pc = "optimize"
    /\ run.remaining > 0
    /\ \E values \in TrialValues :
         study_in_memory' =
             Append(study_in_memory,
                    [values |-> values, evaluated_at |-> Len(study_in_memory) + 1])
    /\ run' = [run EXCEPT !.remaining = @ - 1]
    /\ UNCHANGED <<study_in_storage, config_on_disk, last_run_config>>
    /\ UNCHANGED <<call_vars, shared_vars>>

\* line 140: the process is stopped while study_in_memory.optimize runs
StopRun ==
    /\ run.pc = "optimize"
    /\ run' = [run EXCEPT !.pc = "stopped"]
    /\ UNCHANGED <<study_in_storage, config_on_disk, study_in_memory, last_run_config>>
    /\ UNCHANGED <<call_vars, shared_vars>>

\* line 142: the trials sliced off the study in memory are added to the
\* stored study
AddTrialsToStorage ==
    /\ run.pc = "optimize"
    /\ run.remaining = 0
    /\ study_in_storage' =
           add_trials(study_in_storage, SliceFromEnd(study_in_memory, run.number_trials))
    /\ run' = [run EXCEPT !.pc = "save_config"]
    /\ UNCHANGED <<config_on_disk, study_in_memory, last_run_config>>
    /\ UNCHANGED <<call_vars, shared_vars>>

\* line 145: Optimization.save_config(config) writes to the caller's object
\* and to the pickle file
SaveConfig ==
    /\ run.pc = "save_config"
    /\ config_on_disk' = save_config(run.config)
    /\ run' = [run EXCEPT !.pc = "done", !.config = save_config(run.config)]
    /\ UNCHANGED <<study_in_storage, study_in_memory, last_run_config>>
    /\ UNCHANGED <<call_vars, shared_vars>>

\* start_proceed_study has returned, has raised or was stopped
FinishRun ==
    /\ run.pc \in {"done", "aborted", "error", "stopped"}
    /\ run' = NoRun
    /\ study_in_memory' = <<>>
    /\ last_run_config' = IF run.pc = "done" THEN run.given ELSE last_run_config
    /\ UNCHANGED <<study_in_storage, config_on_disk>>
    /\ UNCHANGED <<call_vars, shared_vars>>

StudyNext ==
    \/ StartProceedStudy
    \/ CreateStudies
    \/ OptimizeTrial
    \/ StopRun
    \/ AddTrialsToStorage
    \/ SaveConfig
    \/ FinishRun

StudySpec == Init /\ [][StudyNext]_vars

\* ------------------------------------------------------------------------
\* engine calls on one Geometry object
\* ------------------------------------------------------------------------
\* the fan, ambient temperature (10 degree Celsius), flow and correlation
\* results of these calls
SHARED_FAN == FanName("orion_od4010m", ".csv")
SHARED_T_AMBIENT == 2
SHARED_FLOW == R(10000)
SHARED_DELTA_P == <<0, 125, 375>>

\* calc_final_r_th_s_a(geometry, ...) is called: inputs holds the field values
\* of the geometry at the call
CallSharedRTh ==
    /\ \E i \in EvalIds :
         /\ evaluations[i].pc = "idle"
         /\ evaluations' =
               [evaluations EXCEPT ![i] =
                   [pc |-> "called", kind |-> "calc_final_r_th_s_a",
                    inputs |-> [geometry |-> shared_geometry,
                                t_ambient |-> SHARED_T_AMBIENT,
                                volume_flow_v_dot |-> SHARED_FLOW]]]
    /\ UNCHANGED <<shared_geometry, fin_distance_writer>>
    /\ UNCHANGED <<call_vars, study_vars>>

\* the pipeline reads geometry.fin_distance_s (calc_epsilon, calc_d_h) and
\* returns
ReturnSharedRTh ==
    /\ \E i \in EvalIds :
         /\ evaluations[i].pc = "called"
         /\ evaluations[i].kind = "calc_final_r_th_s_a"
         /\ evaluations' =
               [evaluations EXCEPT ![i] =
                   [pc |-> "done", kind |-> @.kind, inputs |-> @.inputs,
                    read_from |-> fin_distance_writer,
                    output |-> calc_final_r_th_s_a(shared_geometry, @.inputs.t_ambient,
                                                   @.inputs.volume_flow_v_dot)]]
    /\ UNCHANGED <<shared_geometry, fin_distance_writer>>
    /\ UNCHANGED <<call_vars, study_vars>>

\* calc_volume_flow(fan_name, geometry) is called
CallSharedVolumeFlow ==
    /\ \E i \in EvalIds :
         /\ evaluations[i].pc = "idle"
         /\ evaluations' =
               [evaluations EXCEPT ![i] =
                   [pc |-> "called", kind |-> "calc_volume_flow",
                    inputs |-> [geometry |-> shared_geometry, fan_name |-> SHARED_FAN]]]
    /\ UNCHANGED <<shared_geometry, fin_distance_writer>>
    /\ UNCHANGED <<call_vars, study_vars>>

\* line 259: geometry.fin_distance_s = calc_fin_distance_s(geometry)
AssignSharedFinDistance ==
    /\ \E i \in EvalIds :
         /\ evaluations[i].pc = "called"
         /\ evaluations[i].kind = "calc_volume_flow"
         /\ shared_geometry' =
               [shared_geometry EXCEPT !.fin_distance_s = assign_fin_distance_s(shared_geometry)]
         /\ fin_distance_writer' = i
         /\ evaluations' = [evaluations EXCEPT ![i].pc = "assigned"]
    /\ UNCHANGED <<call_vars, study_vars>>

\* lines 261 to 314: the loop over the flow samples and the intersection
ReturnSharedVolumeFlow ==
    /\ \E i \in EvalIds :
         /\ evaluations[i].pc = "assigned"
         /\ evaluations' =
               [evaluations EXCEPT ![i] =
                   [pc |-> "done", kind |-> @.kind, inputs |-> @.inputs,
                    read_from |-> fin_distance_writer,
                    output |-> volume_flow_of_curves(
                                   read_fan_data(DataFile(@.inputs.fan_name)),
                                   shared_geometry, SHARED_DELTA_P)]]
    /\ UNCHANGED <<shared_geometry, fin_distance_writer>>
    /\ UNCHANGED <<call_vars, study_vars>>

SharedNext ==
    \/ CallSharedRTh
    \/ ReturnSharedRTh
    \/ CallSharedVolumeFlow
    \/ AssignSharedFinDistance
    \/ ReturnSharedVolumeFlow

SharedSpec == Init /\ [][SharedNext]_vars

\* ------------------------------------------------------------------------
\* Properties of calculate_intersection
\* ------------------------------------------------------------------------
IsIntersectionCall == op = "calculate_intersection"

\* the sampled difference systemPressure[i] - fanPressure[i] of the call
SampledDifference(i) == args.y1_list[i].n - args.y2_list[i].n

SignOf(i) == IF i < 0 THEN 0 - 1 ELSE IF i > 0 THEN 1 ELSE 0

\* positions k (1-based) where the sign differs between samples k and k + 1
SignChanges ==
    {k \in 1..(Len(args.x_list) - 1) :
        SignOf(SampledDifference(k)) # SignOf(SampledDifference(k + 1))}

\* C3: a call of calculate_intersection whose sampled difference has no sign
\* change or more than one sign change between consecutive samples ends in an
\* error and returns no crossing.
C3_NoSingleCrossingRaises ==
    (IsIntersectionCall /\ Cardinality(SignChanges) # 1)
        => (result.status = "raise" /\ result.x_list = <<>>)

C3_Witness ==
    /\ IsIntersectionCall
    /\ Cardinality(SignChanges) >= 2
    /\ result.status = "raise"

\* system curve non-decreasing, fan curve non-increasing, system below the fan
\* at the first sample and above it at the last, equal on at most one sample
SingleCrossingCurves ==
    LET len == Len(args.x_list) IN
    /\ \A i \in 1..(len - 1) : args.y1_list[i].n <= args.y1_list[i + 1].n
    /\ \A i \in 1..(len - 1) : args.y2_list[i].n >= args.y2_list[i + 1].n
    /\ SampledDifference(1) < 0
    /\ SampledDifference(len) > 0
    /\ Cardinality({i \in 1..len : SampledDifference(i) = 0}) <= 1

\* the linear interpolant of curve y between samples k and k + 1, at flow x
Interpolant(y, k, x) ==
    RAdd(y[k], RMul(RDiv(RSub(y[k + 1], y[k]), RSub(args.x_list[k + 1], args.x_list[k])),
                    RSub(x, args.x_list[k])))

CrossingOnBothInterpolants(k) ==
    /\ Interpolant(args.y1_list, k, result.x_intersection) = result.y_intersection
    /\ Interpolant(args.y2_list, k, result.x_intersection) = result.y_intersection

\* C4: for monotone curves that cross exactly once, calculate_intersection
\* returns one crossing point that lies on the linear interpolants of both
\* curves, also when the crossing falls exactly on a sample.
C4_SingleCrossingReturned ==
    (IsIntersectionCall /\ SingleCrossingCurves)
        => /\ result.status = "return"
           /\ \E k \in 1..(Len(args.x_list) - 1) :
                /\ RLeq(args.x_list[k], result.x_intersection)
                /\ RLeq(result.x_intersection, args.x_list[k + 1])
                /\ CrossingOnBothInterpolants(k)

\* what holds of the code: the same, for a crossing strictly between two samples
C4_StrictCrossingReturned ==
    (IsIntersectionCall /\ SingleCrossingCurves
        /\ \A i \in 1..Len(args.x_list) : SampledDifference(i) # 0)
        => /\ result.status = "return"
           /\ \E k \in 1..(Len(args.x_list) - 1) :
                /\ RLess(args.x_list[k], result.x_intersection)
                /\ RLess(result.x_intersection, args.x_list[k + 1])
                /\ CrossingOnBothInterpolants(k)

\* removing the element at 1-based position p
Remove(s, p) == SubSeq(s, 1, p - 1) \o SubSeq(s, p + 1, Len(s))

ExampleCall ==
    /\ IsIntersectionCall
    /\ args.x_list = <<R(0), R(1)>>
    /\ args.y1_list = <<R(0), R(1)>>
    /\ args.y2_list = <<R(1), R(0)>>

\* C5: every returned sequence is its input with one element inserted directly
\* after the lower bracketing sample (the crossing flow in x, the crossing
\* pressure in y1 and y2); for x=[0,1], y1=[0,1], y2=[1,0] the result is
\* x=[0,0.5,1], y1=[0,0.5,1], y2=[1,0.5,0] with crossing (0.5, 0.5).
C5_AugmentedCurves ==
    /\ (IsIntersectionCall /\ result.status = "return")
         => \E k \in SignChanges :
              /\ Len(result.x_list) = Len(args.x_list) + 1
              /\ Len(result.y1_list) = Len(args.y1_list) + 1
              /\ Len(result.y2_list) = Len(args.y2_list) + 1
              /\ Remove(result.x_list, k + 1) = args.x_list
              /\ Remove(result.y1_list, k + 1) = args.y1_list
              /\ Remove(result.y2_list, k + 1) = args.y2_list
              /\ result.x_list[k + 1] = result.x_intersection
              /\ result.y1_list[k + 1] = result.y_intersection
              /\ result.y2_list[k + 1] = result.y_intersection
    /\ ExampleCall
         => /\ result.status = "return"
            /\ result.x_list = <<R(0), Frac(1, 2), R(1)>>
            /\ result.y1_list = <<R(0), Frac(1, 2), R(1)>>
            /\ result.y2_list = <<R(1), Frac(1, 2), R(0)>>
            /\ result.x_intersection = Frac(1, 2)
            /\ result.y_intersection = Frac(1, 2)

C5_Witness ==
    /\ ExampleCall
    /\ result.x_list = <<R(0), Frac(1, 2), R(1)>>

\* ------------------------------------------------------------------------
\* Properties of Optimization.objective
\* ------------------------------------------------------------------------
IsObjectiveCall == op = "objective"

AllNaN(ret) == Len(ret) > 0 /\ \A i \in 1..Len(ret) : ret[i] = nan

\* (width_b - (number_fins_n + 1) * thickness_fin_t) / number_fins_n of the trial
\* is at most 0.1 mm, resp. at most 0
TrialFinSpacingTooSmall ==
    10 * (args.trial.width_b - (args.trial.number_fins_n + 1) * args.trial.thickness_fin_t)
        <= args.trial.number_fins_n

TrialFinSpacingNonPositive ==
    args.trial.width_b - (args.trial.number_fins_n + 1) * args.trial.thickness_fin_t <= 0

TrialAreaBelowMin ==
    /\ args.config.number_directions = 2
    /\ args.config.area_min # None
    /\ args.trial.width_b * LENGTH_L < args.config.area_min

\* the evaluation took an infeasible path: fin spacing too small, footprint
\* below area_min, an engine raised, or the resolved flow was NaN
InfeasiblePath ==
    \/ TrialFinSpacingTooSmall
    \/ TrialAreaBelowMin
    \/ result.caught # "none"
    \/ (result.caught = "none" /\ result.calls = <<"calc_volume_flow">>)

\* C1: on every infeasible path the objective returns a tuple whose length is
\* the configured number of objectives, with NaN in every slot.
C1_SentinelHasObjectiveCount ==
    (IsObjectiveCall /\ InfeasiblePath)
        => /\ result.status = "return"
           /\ Len(result.ret) = args.config.number_directions
           /\ AllNaN(result.ret)

\* C2: the objective turns only the named validation, geometry and numeric
\* failures into the sentinel; any other failure propagates to the caller.
C2_OnlyNamedErrorsConverted ==
    IsObjectiveCall => result.caught \in NamedErrors \cup {"none"}

\* C7: a trial whose derived fin spacing is non-positive is rejected with NaN
\* in every slot of the returned tuple before calc_volume_flow,
\* calc_final_r_th_s_a or calc_total_volume is invoked.
C7_NonPositiveSpacingRejectedFirst ==
    (IsObjectiveCall /\ TrialFinSpacingNonPositive)
        => /\ result.status = "return"
           /\ AllNaN(result.ret)
           /\ result.calls = <<>>

C7_Witness ==
    /\ IsObjectiveCall
    /\ TrialFinSpacingNonPositive
    /\ args.trial.fan \in DataFileNames
    /\ args.trial.height_c > 0
    /\ AllNaN(result.ret)
    /\ result.calls = <<>>

\* ------------------------------------------------------------------------
\* Properties of the engines
\* ------------------------------------------------------------------------
IsRThCall == op = "calc_final_r_th_s_a"
IsVolumeFlowCall == op = "calc_volume_flow"

\* C6: calc_volume_flow leaves the Geometry record as the caller passed it and
\* computes the pressure drop with the fin_distance_s the caller assigned.
C6_GeometryUnchanged ==
    IsVolumeFlowCall
        => /\ result.geometry = args.geometry
           /\ (~IsNaN(result.fin_distance_used)
                 => result.fin_distance_used = args.geometry.fin_distance_s)

\* the caller assigned the derived fin distance, and it is non-positive
DerivedSpacingNonPositive ==
    /\ args.geometry.width_b
         - (args.geometry.number_fins_n + 1) * args.geometry.thickness_fin_t <= 0
    /\ args.geometry.fin_distance_s.n * args.geometry.number_fins_n
         = args.geometry.fin_distance_s.d
             * (args.geometry.width_b
                  - (args.geometry.number_fins_n + 1) * args.geometry.thickness_fin_t)

\* C8: a direct call of calc_final_r_th_s_a or calc_volume_flow with a
\* non-positive fin spacing ends in an error and returns nothing.
C8_NonPositiveSpacingRaises ==
    ((IsRThCall \/ IsVolumeFlowCall) /\ DerivedSpacingNonPositive)
        => result.status = "raise"

\* the engine returned a number (not NaN)
ReturnedNumber ==
    \/ (IsRThCall /\ result.status = "return" /\ result.value = "num")
    \/ (IsVolumeFlowCall /\ result.status = "return" /\ ~IsNaN(result.volume_flow))

\* min(s, c) / max(s, c) = e, for the fin distance s and the channel height c
\* the evaluation used
IsMinOverMax(e, s, c) ==
    LET c_less == c * s.d < s.n
        \* min * e.d = e.n * max, with min and max scaled by s.d
        min_scaled == IF c_less THEN c * s.d ELSE s.n
        max_scaled == IF c_less THEN s.n ELSE c * s.d
    IN  max_scaled # 0 /\ min_scaled * e.d = e.n * max_scaled

\* C9: in every engine evaluation that returns a number the shape factor is
\* min(s, c) / max(s, c) and lies in (0, 1].
C9_EpsilonInUnitInterval ==
    ((IsRThCall \/ IsVolumeFlowCall) /\ ReturnedNumber)
        => /\ IsMinOverMax(result.epsilon, result.geometry.fin_distance_s,
                           result.geometry.height_c)
           /\ result.epsilon.n > 0
           /\ result.epsilon.n <= result.epsilon.d

\* Pr = 10^7 / D < 0.1, for D the denominator at the ambient temperature
PrandtlBelowFloor ==
    \/ PrandtlDenominator(args.t_ambient) < 0
    \/ PrandtlDenominator(args.t_ambient) > 100000000

\* m = 2.27 + 1.65 Pr^(1/3) > 7 iff Pr > 79507/3375 iff D <= 424490; m < 2
\* needs a negative Pr
BlendingOutsideRange ==
    /\ PrandtlDenominator(args.t_ambient) > 0
    /\ PrandtlDenominator(args.t_ambient) <= 424490

StagesAfterBlending ==
    {"calc_nu_sqrt_a", "calc_heat_transfer_coefficient_h", "calc_fin_efficiency",
     "calc_effective_fin_surface", "calculate_r_th_sa_part_ii", "r_th_sa"}

Executed(stage) == \E i \in 1..Len(result.stages) : result.stages[i] = stage

\* C10: calc_final_r_th_s_a returns only for a Prandtl number >= 0.1 and a
\* blending exponent in [2, 7]; otherwise it raises, and no stage after the
\* failed check runs.
C10_ValidityChecksAbort ==
    IsRThCall
        => /\ result.status = "return"
                => (~PrandtlBelowFloor /\ ~BlendingOutsideRange)
           /\ PrandtlBelowFloor
                => /\ result.status = "raise"
                   /\ result.value = "none"
                   /\ result.stages = <<"calc_r_th_d", "calc_prandtl_number_air">>
           /\ (~PrandtlBelowFloor /\ BlendingOutsideRange)
                => /\ result.status = "raise"
                   /\ result.value = "none"
                   /\ \A stage \in StagesAfterBlending : ~Executed(stage)

C10_Witness ==
    /\ IsRThCall
    /\ BlendingOutsideRange
    /\ result.status = "raise"
    /\ result.error = "blending"
    /\ result.stages[Len(result.stages)] = "calc_blending_m"

\* ------------------------------------------------------------------------
\* Properties of calc_l_duct
\* ------------------------------------------------------------------------
IsLDuctCall == op = "calc_l_duct"

\* (width_b - height_c) / (2 * tan(alpha_rad))
UnclampedLDuct ==
    Frac((args.geometry.width_b - args.geometry.height_c) * Tan(args.geometry.alpha_rad).d,
         2 * Tan(args.geometry.alpha_rad).n)

\* C11: calc_l_duct raises when the unclamped duct length is negative;
\* otherwise it returns the larger of the unclamped length and l_duct_min, so
\* for l_duct_min >= 0 the returned length is never below l_duct_min.
C11_LDuctClamped ==
    IsLDuctCall =>
        /\ UnclampedLDuct.n < 0 => result.status = "raise"
        /\ UnclampedLDuct.n >= 0 =>
              /\ result.status = "return"
              /\ RLeq(UnclampedLDuct, result.value)
              /\ RLeq(R(args.geometry.l_duct_min), result.value)
              /\ result.value \in {UnclampedLDuct, R(args.geometry.l_duct_min)}
        /\ (result.status = "return" /\ args.geometry.l_duct_min >= 0) =>
              ~RLess(result.value, R(args.geometry.l_duct_min))

\* the unclamped length lies between 0 and a positive l_duct_min, which is returned
C11_Witness ==
    /\ IsLDuctCall
    /\ args.geometry.l_duct_min > 0
    /\ UnclampedLDuct.n >= 0
    /\ RLess(UnclampedLDuct, R(args.geometry.l_duct_min))
    /\ result.status = "return"
    /\ result.value = R(args.geometry.l_duct_min)

\* ------------------------------------------------------------------------
\* Properties of calc_f_app_duct
\* ------------------------------------------------------------------------
IsFAppDuctCall == op = "calc_f_app_duct"

\* the sign of 11.8336 * v * 2 * tan(alpha) / (b - c) / mu is negative
SubTermNegative ==
    /\ ~IsNaN(args.volume_flow_v_dot)
    /\ \/ /\ args.volume_flow_v_dot.n > 0
          /\ args.geometry.width_b < args.geometry.height_c
       \/ /\ args.volume_flow_v_dot.n < 0
          /\ args.geometry.width_b >= args.geometry.height_c

\* C12: calc_f_app_duct never returns a NaN or a negative value: it raises when
\* the flow-dependent sub-term is negative and when the computed friction
\* factor is NaN or negative, and returns the value only otherwise.
C12_FAppDuctNeverNaNOrNegative ==
    IsFAppDuctCall =>
        /\ SubTermNegative => result.status = "raise"
        /\ (IsNaN(args.volume_flow_v_dot) \/ args.f_re_sqrt_a_fd = "nan") =>
              result.status = "raise"
        /\ result.status = "return" => result.value \in {"zero", "pos", "pinf"}
        /\ result.status = "raise" => result.value = "none"

\* the sub-term is not negative and the friction factor computed is NaN
C12_Witness ==
    /\ IsFAppDuctCall
    /\ ~SubTermNegative
    /\ args.f_re_sqrt_a_fd = "nan"
    /\ result.status = "raise"
    /\ result.error = "f_app_duct"

\* ------------------------------------------------------------------------
\* Properties of calc_duct_volume and calc_total_volume
\* ------------------------------------------------------------------------
IsDuctVolumeCall == op = "calc_duct_volume"
IsTotalVolumeCall == op = "calc_total_volume"

\* the fan of the call has a catalog entry, named with or without '.csv'
FanInCatalog == args.fan_name.stem \in {"orion_od4010m", "orion_od3010h"}

\* the side length of the fan of the call, in mm
FanSide == IF args.fan_name.stem = "orion_od3010h" THEN 30 ELSE 40

FanSmallerThanHeatSink ==
    FanSide < args.geometry.width_b \/ FanSide < args.geometry.height_c

\* C13: calc_duct_volume and calc_total_volume end in a geometry error whenever
\* the fan's side length is below width_b or below height_c, and return a
\* volume only when the fan is at least as large as the heat sink in both.
C13_FanSmallerThanHeatSinkRaises ==
    ((IsDuctVolumeCall \/ IsTotalVolumeCall) /\ FanInCatalog) =>
        /\ FanSmallerThanHeatSink =>
              (result.status = "raise" /\ result.error = "fan_too_small")
        /\ result.status = "return" => ~FanSmallerThanHeatSink

\* C17: calc_total_volume is the sum of the boxed heat sink volume
\* length_l * width_b * (height_c + height_d), the fan volume
\* width_height^2 * length of the catalog entry and the duct volume of the
\* same geometry and fan, with or without the '.csv' suffix of the fan name.
C17_TotalVolumeIsSum ==
    (IsTotalVolumeCall /\ FanInCatalog) =>
        /\ result.status = calc_duct_volume(args.geometry, args.fan_name).status
        /\ result.status = "return" =>
              /\ result.heat_sink_volume =
                     R(args.geometry.length_l * args.geometry.width_b
                           * (args.geometry.height_c + args.geometry.height_d))
              /\ result.fan_volume = R(FanSide * FanSide * 10)
              /\ result.duct_volume =
                     calc_duct_volume(args.geometry, args.fan_name).value
              /\ result.value =
                     RAdd(result.heat_sink_volume,
                          RAdd(result.fan_volume, result.duct_volume))
        /\ \A suffix \in {"", ".csv"} :
              result = calc_total_volume(args.geometry,
                                         FanName(args.fan_name.stem, suffix))

\* the test geometry (40 x 30 mm) with the 40 mm fan named with '.csv'
C17_Witness ==
    /\ IsTotalVolumeCall
    /\ args.fan_name = FanName("orion_od4010m", ".csv")
    /\ args.geometry.width_b = 40
    /\ args.geometry.height_c = 30
    /\ result.status = "return"
    /\ result.heat_sink_volume = R(132000)
    /\ result.fan_volume = R(16000)

\* ------------------------------------------------------------------------
\* Properties of read_fan_data
\* ------------------------------------------------------------------------
IsReadFanDataCall == op = "read_fan_data"

\* C14: read_fan_data returns one (flow, pressure) sample per data row, in
\* file order, with flow = CFM / 2118.8799 for every sample and pressure =
\* inchesH2O * 250 for every sample except the last, whose pressure is 0
\* whatever raw value was read; the flow of the last sample is not altered.
C14_LastPressureForcedToZero ==
    IsReadFanDataCall =>
        /\ Len(result.fan_cubic_meter_second) = Len(args.rows)
        /\ Len(result.fan_pressure_drop_pascal) = Len(args.rows)
        /\ \A i \in 1..Len(args.rows) :
              /\ result.fan_cubic_meter_second[i] = R(args.rows[i].cfm * 10000)
              /\ result.fan_pressure_drop_pascal[i] =
                     IF i = Len(args.rows) THEN R(0)
                     ELSE R(args.rows[i].inch_h2o * 250)

\* a file whose last row holds a pressure and a flow that are not 0
C14_Witness ==
    /\ IsReadFanDataCall
    /\ Len(args.rows) >= 2
    /\ args.rows[Len(args.rows)].inch_h2o # 0
    /\ args.rows[Len(args.rows)].cfm # 0
    /\ args.rows[1].inch_h2o # 0
    /\ result.fan_pressure_drop_pascal[Len(args.rows)] = R(0)
    /\ result.fan_cubic_meter_second[Len(args.rows)].n # 0

\* ------------------------------------------------------------------------
\* Properties of the value records
\* ------------------------------------------------------------------------
IsGeometryConstruction == op = "Geometry"
IsSpreadingMaterialConstruction == op = "SpreadingMaterial"

\* C20: value records are validated at construction: constructing a Geometry
\* with a non-positive fin count, or a SpreadingMaterial whose plate area is
\* smaller than its heat source area, is rejected, so no such record exists.
C20_RecordsValidatedAtConstruction ==
    /\ IsGeometryConstruction =>
          /\ args.number_fins_n <= 0 => result.status = "raise"
          /\ result.status = "return" => result.value.number_fins_n > 0
    /\ IsSpreadingMaterialConstruction =>
          /\ args.spreading_material_area_a_sp < args.heat_source_area_a_s =>
                result.status = "raise"
          /\ result.status = "return" =>
                result.value.spreading_material_area_a_sp
                    >= result.value.heat_source_area_a_s

\* ------------------------------------------------------------------------
\* Properties of the values the objective returns
\* ------------------------------------------------------------------------
\* the operating point calc_volume_flow resolves for the fan and the geometry
\* of the trial
ResolvedFlow ==
    calc_volume_flow(args.trial.fan, TrialGeometry(args.trial), args.delta_p)

\* the geometry is feasible and no engine raises
FeasibleAndNoEngineRaises ==
    /\ IsObjectiveCall
    /\ ~TrialFinSpacingTooSmall
    /\ args.config.number_directions = 2 =>
          (args.config.area_min # None
             /\ args.trial.width_b * LENGTH_L >= args.config.area_min)
    /\ ResolvedFlow.status = "return"
    /\ ~IsNaN(ResolvedFlow.volume_flow)
    /\ calc_final_r_th_s_a(TrialGeometry(args.trial), args.config.t_ambient,
                           ResolvedFlow.volume_flow).status = "return"
    /\ calc_total_volume(TrialGeometry(args.trial), args.trial.fan).status = "return"

\* C16: when the geometry is feasible and no engine raises, the objective
\* returns (total_volume, r_th_sa), with width_b * length_l as third value for
\* three objectives; r_th_sa is calc_final_r_th_s_a at exactly the flow that
\* calc_volume_flow resolved for the same fan and geometry, and total_volume
\* is calc_total_volume of that fan and geometry.
C16_ObjectiveReturnsEngineValues ==
    FeasibleAndNoEngineRaises =>
        /\ result.status = "return"
        /\ result.caught = "none"
        /\ Len(result.ret) = args.config.number_directions
        /\ result.ret[1] = "total_volume"
        /\ result.ret[2] \in {"r_th_sa", nan}
        /\ args.config.number_directions = 3 => result.ret[3] = "area"
        /\ result.values.total_volume =
               calc_total_volume(TrialGeometry(args.trial), args.trial.fan).value
        /\ result.values.r_th_sa.call =
               [geometry |-> TrialGeometry(args.trial),
                t_ambient |-> args.config.t_ambient,
                volume_flow_v_dot |-> ResolvedFlow.volume_flow]
        /\ result.values.r_th_sa.value =
               calc_final_r_th_s_a(TrialGeometry(args.trial), args.config.t_ambient,
                                   ResolvedFlow.volume_flow).value
        /\ result.values.area = args.trial.width_b * LENGTH_L

\* a feasible trial evaluated for three objectives
C16_Witness ==
    /\ FeasibleAndNoEngineRaises
    /\ args.config.number_directions = 3
    /\ result.ret = <<"total_volume", "r_th_sa", "area">>
    /\ result.values.r_th_sa.call.volume_flow_v_dot.n > 0
    /\ result.values.r_th_sa.call.volume_flow_v_dot = ResolvedFlow.volume_flow
    /\ result.values.total_volume.n > 0

\* ------------------------------------------------------------------------
\* Properties of start_proceed_study
\* ------------------------------------------------------------------------
\* start_proceed_study ran to completion
RunCompleted == run.pc = "done"

\* the trials evaluated by the run
NewTrials ==
    SubSeq(study_in_memory, Len(run.storage_at_start) + 1, Len(study_in_memory))

\* C15: start_proceed_study(config, number_trials) run to completion on a
\* persisted study of k trials leaves it with exactly k + number_trials trials,
\* the k earlier ones unchanged plus the newly evaluated ones, for every
\* number_trials >= 0 and k >= 0.
C15_StudyGrowsByNumberTrials ==
    RunCompleted =>
        /\ Len(study_in_storage) = Len(run.storage_at_start) + run.number_trials
        /\ study_in_storage = run.storage_at_start \o NewTrials

\* the statement for number_trials > 0
C15_StudyGrowsByPositiveNumberTrials ==
    (RunCompleted /\ run.number_trials > 0) =>
        /\ Len(study_in_storage) = Len(run.storage_at_start) + run.number_trials
        /\ study_in_storage = run.storage_at_start \o NewTrials

\* ------------------------------------------------------------------------
\* Properties of engine calls on one Geometry object
\* ------------------------------------------------------------------------
EvaluationDone(i) == evaluations[i].pc = "done"

\* C18: evaluations are stateless and deterministic: two evaluations with
\* equal inputs return equal outputs whatever other evaluations ran before or
\* are interleaved with them, and no evaluation reads a value written by
\* another evaluation.
C18_EvaluationsIndependent ==
    /\ \A i \in EvalIds :
          EvaluationDone(i) => evaluations[i].read_from \in {0, i}
    /\ \A i \in EvalIds : \A j \in EvalIds :
          (/\ EvaluationDone(i)
           /\ EvaluationDone(j)
           /\ evaluations[i].kind = evaluations[j].kind
           /\ evaluations[i].inputs = evaluations[j].inputs)
              => evaluations[i].output = evaluations[j].output

\* ------------------------------------------------------------------------
\* Properties of the objective when an engine raises
\* ------------------------------------------------------------------------
EngineValueSlots == {"total_volume", "r_th_sa", "area"}

\* an exception was raised inside the try block
RaisedInTry == IsObjectiveCall /\ result.caught # "none"

\* C21: the objective never returns a partial result: when anything raises
\* during the evaluation, also calc_total_volume after the flow and r_th_sa
\* have been computed, the returned tuple holds no engine value and every
\* slot is NaN.
C21_NoPartialResult ==
    RaisedInTry =>
        /\ result.status = "return"
        /\ AllNaN(result.ret)
        /\ \A i \in 1..Len(result.ret) : result.ret[i] \notin EngineValueSlots
        /\ result.values = NoValues

\* calc_total_volume raises after the flow and r_th_sa have been computed
C21_Witness ==
    /\ RaisedInTry
    /\ result.caught = "fan_too_small"
    /\ result.calls = <<"calc_volume_flow", "calc_final_r_th_s_a", "calc_total_volume">>
    /\ ~IsNaN(ResolvedFlow.volume_flow)
    /\ calc_final_r_th_s_a(TrialGeometry(args.trial), args.config.t_ambient,
                           ResolvedFlow.volume_flow).value = "num"
    /\ AllNaN(result.ret)
    /\ Len(result.ret) = 3

\* ------------------------------------------------------------------------
\* Properties of the order of the steps of start_proceed_study
\* ------------------------------------------------------------------------
\* the persisted study and the persisted configuration are as the run found
\* them
PersistedUnchanged ==
    /\ study_in_storage = run.storage_at_start
    /\ config_on_disk = run.config_at_start

\* the working study starts with the trials that were persisted
PersistedTrialsLoaded ==
    /\ Len(study_in_memory) >= Len(run.storage_at_start)
    /\ SubSeq(study_in_memory, 1, Len(run.storage_at_start)) = run.storage_at_start

\* every trial the run has evaluated so far came after the loaded ones
NewTrialsEvaluatedAfterLoad ==
    \A i \in 1..Len(study_in_memory) :
        i > Len(run.storage_at_start) =>
            study_in_memory[i].evaluated_at > Len(run.storage_at_start)

AllTrialsEvaluated ==
    /\ run.remaining = 0
    /\ Len(study_in_memory) = Len(run.storage_at_start) + run.number_trials

AnsweredAbort ==
    /\ run.pc # "idle"
    /\ run.config_at_start # NoConfig
    /\ run.config_at_start # run.given
    /\ run.read_text \notin {"1", "", "not asked"}

NoTrialEvaluated ==
    /\ study_in_memory = <<>>
    /\ run.remaining = run.number_trials

\* C23: when a persisted configuration differs from the given one and the
\* user answers anything but '1' or the empty line, start_proceed_study returns
\* without evaluating a trial, without adding a trial to the persisted study
\* and without rewriting the persisted configuration.
C23_AbortChangesNothing ==
    AnsweredAbort =>
        /\ run.pc = "aborted"
        /\ NoTrialEvaluated
        /\ PersistedUnchanged
        /\ run.config = run.given

\* a run of two trials on a stored study is aborted at the prompt
C23_Witness ==
    /\ AnsweredAbort
    /\ run.pc = "aborted"
    /\ run.prompted
    /\ run.number_trials = 2
    /\ Len(study_in_storage) > 0
    /\ config_on_disk # run.given

\* ------------------------------------------------------------------------
\* Properties of the area bound of the objective
\* ------------------------------------------------------------------------
\* width_b * length_l of the trial is below a given area_min
TrialFootprintBelowAreaMin ==
    /\ IsObjectiveCall
    /\ args.config.area_min # None
    /\ args.trial.width_b * LENGTH_L < args.config.area_min

\* C24: with number_directions = 2 and a footprint below area_min the
\* objective returns the NaN pair and invokes none of calc_volume_flow,
\* calc_final_r_th_s_a, calc_total_volume; with number_directions = 3 the
\* bound is not applied: the engines are invoked, and the footprint area is
\* the third value returned.
C24_AreaBoundOnlyForTwoObjectives ==
    /\ (TrialFootprintBelowAreaMin /\ args.config.number_directions = 2) =>
          /\ result.status = "return"
          /\ result.ret = <<nan, nan>>
          /\ result.calls = <<>>
    /\ (TrialFootprintBelowAreaMin /\ args.config.number_directions = 3
          /\ ~TrialFinSpacingTooSmall) =>
          /\ result.calls # <<>>
          /\ result.calls[1] = "calc_volume_flow"
          /\ FeasibleAndNoEngineRaises =>
                /\ result.ret = <<"total_volume", "r_th_sa", "area">>
                   \/ result.ret = <<"total_volume", nan, "area">>
                /\ result.values.area = args.trial.width_b * LENGTH_L

\* a trial with feasible fin spacing and a footprint below area_min, rejected
\* for two objectives
C24_Witness ==
    /\ TrialFootprintBelowAreaMin
    /\ args.config.number_directions = 2
    /\ ~TrialFinSpacingTooSmall
    /\ args.trial.height_c > 0
    /\ result.ret = <<nan, nan>>
    /\ result.calls = <<>>

\* ------------------------------------------------------------------------
\* Properties of start_proceed_study for a number_directions other than 2, 3
\* ------------------------------------------------------------------------
InvalidDirectionsRun ==
    /\ run.pc # "idle"
    /\ run.given.number_directions \notin {2, 3}

\* C25: start_proceed_study called with a number_directions other than 2 or 3
\* ends in an error, evaluates no trial and adds no trial to the persisted
\* study.
C25_InvalidDirectionsEndInError ==
    InvalidDirectionsRun =>
        /\ run.pc \in {"create_study", "error"}
        /\ NoTrialEvaluated
        /\ study_in_storage = run.storage_at_start

\* C25 as amended: such a call evaluates no trial and adds no trial to the
\* persisted study; it ends in an error unless the user aborts it at the prompt
\* about a differing persisted configuration, and then it returns.
C25_InvalidDirectionsRunNothing ==
    InvalidDirectionsRun =>
        /\ run.pc \in {"create_study", "error", "aborted"}
        /\ run.pc = "aborted" => AnsweredAbort
        /\ NoTrialEvaluated
        /\ PersistedUnchanged

\* a run of two trials with number_directions = 1 on a stored study has raised
C25_Witness ==
    /\ InvalidDirectionsRun
    /\ run.pc = "error"
    /\ run.number_trials = 2
    /\ Len(study_in_storage) > 0
    /\ study_in_memory = <<>>

\* ------------------------------------------------------------------------
\* Properties of the crossing point
\* ------------------------------------------------------------------------
\* v lies in the closed interval between a and b
RBetween(a, v, b) ==
    \/ (RLeq(a, v) /\ RLeq(v, b))
    \/ (RLeq(b, v) /\ RLeq(v, a))

\* the crossing calculate_intersection returned lies between the bracketing
\* flow samples, and its pressure between the fan pressures (y2) there
CrossingWithinBracket ==
    LET i == result.intersection_index + 1
    IN  /\ RLeq(args.x_list[i], result.x_intersection)
        /\ RLeq(result.x_intersection, args.x_list[i + 1])
        /\ RBetween(args.y2_list[i], result.y_intersection, args.y2_list[i + 1])

\* the flow samples of the fan of a calc_volume_flow call
FanFlowSamples == read_fan_data(DataFile(args.fan_name)).fan_cubic_meter_second

\* the statement for direct calls with finite pressures
C26_DirectCrossingWithinBracket ==
    (IsIntersectionCall /\ result.status = "return") => CrossingWithinBracket

\* C26: whenever calculate_intersection returns a crossing for a strictly
\* ascending flow grid, the crossing flow lies in the closed interval between
\* the two bracketing flow samples and the crossing pressure between the fan
\* pressures at those samples; hence the operating point calc_volume_flow
\* returns has a flow between the first and the last flow sample of the fan.
C26_OperatingPointWithinFanRange ==
    /\ (IsIntersectionCall /\ result.status = "return") => CrossingWithinBracket
    /\ (IsVolumeFlowCall /\ result.status = "return") =>
          /\ RLeq(FanFlowSamples[1], result.volume_flow)
          /\ RLeq(result.volume_flow, FanFlowSamples[Len(FanFlowSamples)])

\* C27: whenever calculate_intersection returns for a strictly ascending flow
\* sequence, the augmented flow sequence it returns is strictly ascending too:
\* the inserted crossing flow duplicates no flow sample.
C27_AugmentedFlowsStrictlyAscending ==
    (IsIntersectionCall /\ result.status = "return") =>
        \A i \in 1..(Len(result.x_list) - 1) :
            RLess(result.x_list[i], result.x_list[i + 1])

\* ------------------------------------------------------------------------
\* Properties of the objective for an unset area_min
\* ------------------------------------------------------------------------
\* two objectives, area_min = None, a feasible fin spacing, and engines that
\* return numbers for the trial
UnsetAreaMinFeasible ==
    /\ IsObjectiveCall
    /\ args.config.number_directions = 2
    /\ args.config.area_min = None
    /\ ~TrialFinSpacingTooSmall
    /\ ResolvedFlow.status = "return"
    /\ ~IsNaN(ResolvedFlow.volume_flow)
    /\ calc_final_r_th_s_a(TrialGeometry(args.trial), args.config.t_ambient,
                           ResolvedFlow.volume_flow).status = "return"
    /\ calc_total_volume(TrialGeometry(args.trial), args.trial.fan).status = "return"

\* C28: an unset area constraint (area_min = None) imposes no constraint: with
\* number_directions = 2, a feasible geometry and no engine error the
\* objective returns the computed (total_volume, r_th_sa), not the NaN
\* sentinel.
C28_UnsetAreaMinImposesNoConstraint ==
    UnsetAreaMinFeasible =>
        /\ result.status = "return"
        /\ result.caught = "none"
        /\ Len(result.ret) = 2
        /\ result.ret[1] = "total_volume"
        /\ result.ret[2] \in {"r_th_sa", nan}
        /\ result.values.total_volume =
               calc_total_volume(TrialGeometry(args.trial), args.trial.fan).value

\* ------------------------------------------------------------------------
\* Properties of the persisted configuration
\* ------------------------------------------------------------------------
\* the run was given the field values that the last completed run was given
SameConfigurationAgain ==
    /\ run.pc # "idle"
    /\ last_run_config # NoConfig
    /\ run.given = last_run_config

\* C29: a second run given a configuration whose field values are those given
\* to the first completed run, a relative heat_sink_optimization_directory
\* included, detects no difference to the persisted configuration and does
\* not prompt; save_config leaves the caller's configuration object unchanged.
C29_SameConfigurationNotPrompted ==
    /\ SameConfigurationAgain => ~run.prompted
    /\ run.pc = "done" => run.config = run.given

\* the first half of the statement alone
C29_SecondRunNotPrompted == SameConfigurationAgain => ~run.prompted

\* the statement for an absolute directory
C29_AbsoluteDirectoryNotPrompted ==
    /\ (SameConfigurationAgain
          /\ run.given.heat_sink_optimization_directory = ABSOLUTE_DIRECTORY)
          => ~run.prompted
    /\ (run.pc = "done"
          /\ run.given.heat_sink_optimization_directory = ABSOLUTE_DIRECTORY)
          => run.config = run.given

\* ------------------------------------------------------------------------
\* Properties of calc_weight_heat_sink
\* ------------------------------------------------------------------------
IsWeightCall == op = "calc_weight_heat_sink"

\* fin_distance_s of the geometry is the one calc_fin_distance_s derives
FinDistanceDerived == args.geometry.fin_distance_s = calc_fin_distance_s(args.geometry)

\* length_l * width_b * height_d
BaseplateVolume ==
    R(args.geometry.length_l * args.geometry.width_b * args.geometry.height_d)

\* the number_fins_n + 1 fins: thickness_fin_t * height_c * length_l each
FinsVolume ==
    R((args.geometry.number_fins_n + 1) * args.geometry.thickness_fin_t
          * args.geometry.height_c * args.geometry.length_l)

\* the number_fins_n air channels: fin_distance_s * height_c * length_l each
ChannelsVolume ==
    RMul(R(args.geometry.number_fins_n * args.geometry.height_c * args.geometry.length_l),
         args.geometry.fin_distance_s)

\* C30: calc_weight_heat_sink counts the air channels as the rest of the
\* model does: with fin_distance_s derived by calc_fin_distance_s, the material
\* volume it weighs is the baseplate volume plus the volume of the
\* number_fins_n + 1 fins, i.e. the boxed volume minus
\* number_fins_n * fin_distance_s * height_c * length_l.
C30_WeightCountsAllChannels ==
    (IsWeightCall /\ FinDistanceDerived) =>
        /\ result.material_volume = RAdd(BaseplateVolume, FinsVolume)
        /\ result.material_volume =
               RSub(calc_boxed_volume_heat_sink(args.geometry), ChannelsVolume)
        /\ result.value = RMul(RDiv(RAdd(BaseplateVolume, FinsVolume), R(100)),
                               R(RHO_MATERIAL))

\* the two forms of the material volume in the statement agree
C30_FormsAgree ==
    (IsWeightCall /\ FinDistanceDerived) =>
        RAdd(BaseplateVolume, FinsVolume) =
            RSub(calc_boxed_volume_heat_sink(args.geometry), ChannelsVolume)

====
